---- MODULE Spec2Model ----
(***************************************************************************)
(* A model of the @nullify/testing execution engine: the suite's scope     *)
(* stack and registry (testing.ts), the hook-wrapped test functions        *)
(* (wrapHooks), the ordered TestRunner (runner.ts), the per-test timeout   *)
(* race (utils.ts) and _Suite.run with its deferred result cache.          *)
(*                                                                         *)
(* JavaScript scheduling is modelled as the event loop runs it: a chain of *)
(* microtasks (the run loop, the runner and the wrapped function it awaits,*)
(* or the continuation of a wrapped function abandoned by a timeout) runs  *)
(* to its next wait on a timer before any timer callback is served.        *)
(***************************************************************************)
EXTENDS Integers, Sequences, FiniteSets, TLC

VARIABLES
    frames,     \* heap of Context objects (model.ts Context/StackItem), by address
    stack,      \* _Suite.#stack: addresses of the open scopes, root first
    registry,   \* _Suite.#registry: the wrapped test definitions, in order
    nextId,     \* identity of the next registered test object
    cache,      \* _Suite.#cache: the Deferred of the current cycle
    endValue,   \* settled value of the readonly `end` promise
    run,        \* the run() call in progress: options, runner, loop position
    tasks,      \* the invocations of wrapped functions that have not settled yet
    events,     \* the runner's event stream in the current run
    calls,      \* trace of the wrapped functions in the current run: the
                \* callbacks (hooks, bodies) they invoke and their returns
    returned,   \* the calls of run() that have returned, in order: the options
                \* of the call and the state of the promise it returned
    exited,     \* the process was terminated by exit(1)
    script,     \* what the script that drives the suite may pass to the API
    thrown,     \* the script's last call that registers something was a call of
                \* test() that threw a TypeError
    open,       \* the number of group callbacks the script is inside of
    logging,    \* globalThis.console.log and the oldConsoleLog of the logger
                \* of utils.ts, which all suites of the process share
    other       \* the run of a second suite of the same process

vars == <<frames, stack, registry, nextId, cache, endValue, run, tasks,
          events, calls, returned, exited, script, thrown, open, logging, other>>

(***************************************************************************)
(* Bounds of the model.                                                    *)
(***************************************************************************)
MaxTests == 3
MaxGroups == 2
MaxHooks == 2
MaxRuns == 2

(***************************************************************************)
(* Strings are sequences of one-character strings.                         *)
(***************************************************************************)
Sep == <<" ", ">", " ">>
SuiteName == <<"s">>
GroupNames == {<<"g">>}

RECURSIVE Join(_)
\* Array.prototype.join(" > ") over the scope names and the test name
Join(parts) ==
    IF Len(parts) = 0 THEN <<>>
    ELSE IF Len(parts) = 1 THEN parts[1]
    ELSE parts[1] \o Sep \o Join(Tail(parts))

\* String.prototype.startsWith / endsWith / includes
StartsWith(s, p) == Len(p) <= Len(s) /\ SubSeq(s, 1, Len(p)) = p
EndsWith(s, p) == Len(p) <= Len(s) /\ SubSeq(s, Len(s) - Len(p) + 1, Len(s)) = p
Includes(s, p) == \E k \in 0..(Len(s) - Len(p)) : SubSeq(s, k + 1, k + Len(p)) = p

\* RegExp.prototype.test for patterns made of literal characters with an
\* optional leading ^ and an optional trailing $
RegexTest(pat, s) ==
    LET anchoredL == Len(pat) > 0 /\ pat[1] = "^"
        p1 == IF anchoredL THEN Tail(pat) ELSE pat
        anchoredR == Len(p1) > 0 /\ p1[Len(p1)] = "$"
        lit == IF anchoredR THEN SubSeq(p1, 1, Len(p1) - 1) ELSE p1
    IN  IF anchoredL /\ anchoredR THEN s = lit
        ELSE IF anchoredL THEN StartsWith(s, lit)
        ELSE IF anchoredR THEN EndsWith(s, lit)
        ELSE Includes(s, lit)

(***************************************************************************)
(* Option values: a filter or skip is absent, a RegExp or a string.        *)
(***************************************************************************)
NoPattern == [type |-> "undefined", text |-> <<>>]
Re(p) == [type |-> "RegExp", text |-> p]
Str(s) == [type |-> "string", text |-> s]

\* JavaScript truthiness of a filter/skip option
PatternGiven(f) == f.type = "RegExp" \/ (f.type = "string" /\ Len(f.text) > 0)

\* the skip branch of createFilterFn: a RegExp or substring containment
SkipMatches(skip, name) ==
    IF skip.type = "RegExp" THEN RegexTest(skip.text, name)
    ELSE Includes(name, skip.text)

\* the filter branch of createFilterFn: a RegExp, a /pattern/ string or a substring
FilterMatches(filter, name) ==
    IF filter.type = "RegExp" THEN RegexTest(filter.text, name)
    ELSE IF StartsWith(filter.text, <<"/">>) /\ EndsWith(filter.text, <<"/">>)
         THEN RegexTest(SubSeq(filter.text, 2, Len(filter.text) - 1), name)
    ELSE Includes(name, filter.text)

\* createFilterFn(filter, skip)(def)
createFilterFn(filter, skip, def) ==
    /\ (PatternGiven(filter) => FilterMatches(filter, def.name))
    /\ (PatternGiven(skip) => ~SkipMatches(skip, def.name))

(***************************************************************************)
(* JavaScript values that are thrown, caught and tested.                   *)
(***************************************************************************)
Undefined == "undefined"
ErrorObj == "Error"
TimeoutError == "TimeoutError"
HookError == "HookError"
Truthy(v) == v # Undefined
NotNullish(v) == v # Undefined

\* behaviours of a user callback (a test body or a hook)
Ok == [k |-> "ok", v |-> Undefined]
Slow == [k |-> "slow", v |-> Undefined]
Throw(v) == [k |-> "throw", v |-> v]

(***************************************************************************)
(* Scope frames.                                                           *)
(***************************************************************************)
newContext(name) ==
    [name |-> name, beforeAll |-> <<>>, beforeEach |-> <<>>, afterEach |-> <<>>,
     afterAll |-> <<>>, waiting |-> 0, completed |-> 0, only |-> 0,
     completedOnly |-> 0]

\* a fresh address for an object on the heap h
NewAddr(h) == CHOOSE a \in 1..(Cardinality(DOMAIN h) + 1) : a \notin DOMAIN h

\* a suite whose hooks all go to the root scope
bottom == stack[1]

\* _Suite.top
top == stack[Len(stack)]

\* the first test of a cycle
FirstIds == [test |-> 1]

NoValue == [status |-> "pending"]

\* a deferred whose `pending` field follows the promise
pendingClearedOnSettle == FALSE

\* deferred(): the returned object holds a copy of `pending` taken when it is
\* built; the promise's finally() assigns the closure variable, not the field,
\* so this is what the field reads once the promise has settled
pendingOnceSettled == TRUE

\* deferred(): `value` is the state of the promise, isEnd tells whether the
\* promise is the one the readonly `end` property was initialised with
deferred == [pending |-> TRUE, value |-> NoValue, isEnd |-> FALSE]

\* a SuiteEnd without the optional timeout field, and the value
\* `options.timeout ?? 0` of an absent suite timeout
NoTimeout == 0

emptyEndMsg ==
    [usedOnly |-> FALSE, results |-> <<>>, filtered |-> 0, ignored |-> 0,
     passed |-> 0, failed |-> 0, timeout |-> NoTimeout]

\* `let endMsg: SuiteEnd | undefined` before the end event is seen
NoEndMsg == [absent |-> TRUE]

Idle == [pc |-> "idle"]

HookKinds == {"beforeAll", "beforeEach", "afterEach", "afterAll"}

(***************************************************************************)
(* The scripts: each draws the arguments of its API calls from small sets. *)
(***************************************************************************)
\* the arguments of a call of test(): a name and a function, or a record
TestCall(form, name, fn, ignore, only) ==
    [form |-> form, name |-> name, fn |-> fn, ignore |-> ignore, only |-> only]

\* test({ name, fn, ignore, only })
Test(name, fn, ignore, only) == TestCall("record", name, fn, ignore, only)

\* test(name, fn): the flags are the defaults
StringForm(name, fn) == TestCall("string", name, fn, FALSE, FALSE)

\* the argument fn of a call that passes no function
NoFn == [k |-> "undefined", v |-> Undefined]

\* the program's default for the suite-level timeout (defaultRunOptions)
DefaultSuiteTimeout == 5000

Options(filter, skip, failFast, timeout, reset, exit) ==
    [filter |-> filter, skip |-> skip, failFast |-> failFast, timeout |-> timeout,
     reset |-> reset, exit |-> exit, onMessage |-> NoFn, logger |-> TRUE,
     disableLog |-> FALSE]

\* run({ ...o, disableLog: true })
DisableLog(o) == [o EXCEPT !.disableLog = TRUE]

\* run({ ...o, onMessage: fn })
OnMessage(o, fn) == [o EXCEPT !.onMessage = fn]

\* run({ ...o, logger: false })
Silent(o) == [o EXCEPT !.logger = FALSE]

Plain == Options(NoPattern, NoPattern, FALSE, NoTimeout, FALSE, FALSE)

Script(groups, hooks, tests, unique, options, rerun) ==
    [groups |-> groups, hooks |-> hooks, tests |-> tests, unique |-> unique,
     options |-> options, rerun |-> rerun, hooksLast |-> FALSE, suites |-> 1]

\* a script that makes a second suite, which it runs with disableLog
TwoSuites(sc) == [sc EXCEPT !.suites = 2]

\* a script that declares every hook after a test of the hook's scope
HooksLast(sc) == [sc EXCEPT !.hooksLast = TRUE]

Filter(f) == Options(f, NoPattern, FALSE, NoTimeout, FALSE, FALSE)
Skip(f) == Options(NoPattern, f, FALSE, NoTimeout, FALSE, FALSE)
FailFast == Options(NoPattern, NoPattern, TRUE, NoTimeout, FALSE, FALSE)
SuiteTimer == Options(NoPattern, NoPattern, FALSE, DefaultSuiteTimeout, FALSE, FALSE)
Exit == Options(NoPattern, NoPattern, FALSE, NoTimeout, FALSE, TRUE)

\* tests of one scope with every combination of flags; focus, filters, fail-fast
Selection ==
    Script({}, {},
           {Test(<<"a">>, Ok, FALSE, FALSE), Test(<<"b">>, Throw(ErrorObj), FALSE, FALSE),
            Test(<<"b">>, Throw(Undefined), FALSE, FALSE), Test(<<"a">>, Ok, TRUE, FALSE),
            Test(<<"b">>, Ok, FALSE, TRUE), Test(<<"a">>, Throw(ErrorObj), FALSE, TRUE)},
           FALSE,
           {Plain, FailFast, Filter(Str(<<"a">>)), Skip(Str(<<"a">>))},
           FALSE)

\* several runs of one suite, with and without a reset in between
Reruns ==
    Script({}, {},
           {Test(<<"a">>, Ok, FALSE, FALSE), Test(<<"b">>, Throw(ErrorObj), FALSE, FALSE)},
           FALSE,
           {Plain, Filter(Str(<<"a">>)),
            Options(NoPattern, Str(<<"a">>), FALSE, NoTimeout, TRUE, FALSE)},
           TRUE)

\* nested groups with all four kinds of hooks around failing tests
HooksFail ==
    Script(GroupNames, HookKinds \X {Ok},
           {Test(<<"a">>, Throw(ErrorObj), FALSE, FALSE)},
           TRUE,
           {Plain, Filter(Str(<<"g">>))},
           FALSE)

\* several passing tests sharing the once-per-scope hooks of their groups
HooksPass ==
    Script(GroupNames, {"beforeAll", "afterAll"} \X {Ok},
           {Test(<<"a">>, Ok, FALSE, FALSE)},
           FALSE,
           {Plain},
           FALSE)

\* teardown after a body that throws a falsy value
HooksFalsy ==
    Script(GroupNames, {<<"afterEach", Ok>>},
           {Test(<<"a">>, Throw(Undefined), FALSE, FALSE)},
           TRUE,
           {Plain},
           FALSE)

\* bodies that wait on timers, raced against the test and suite timers
Timeouts ==
    Script({}, {<<"afterEach", Ok>>},
           {Test(<<"a">>, Slow, FALSE, FALSE), Test(<<"b">>, Ok, FALSE, FALSE)},
           FALSE,
           {Plain, FailFast, SuiteTimer},
           FALSE)

\* hooks that fail, under fail-fast
FailingHooks ==
    Script({}, {<<"beforeEach", Throw(Undefined)>>, <<"beforeEach", Throw(ErrorObj)>>},
           {Test(<<"a">>, Ok, FALSE, FALSE), Test(<<"b">>, Ok, FALSE, FALSE)},
           FALSE,
           {Plain, FailFast},
           FALSE)

\* focused tests, one of them slow, under the suite timer and the exit option
Focus ==
    Script({}, {},
           {Test(<<"a">>, Slow, FALSE, TRUE), Test(<<"b">>, Throw(ErrorObj), FALSE, TRUE),
            Test(<<"b">>, Ok, FALSE, FALSE)},
           FALSE,
           {Plain, SuiteTimer, Exit},
           FALSE)

\* the forms of the filter and skip options over qualified names
Patterns ==
    Script(GroupNames, {},
           {Test(<<"a">>, Ok, FALSE, FALSE), Test(<<"b">>, Ok, FALSE, FALSE)},
           TRUE,
           {Filter(Str(<<"/", "a", "$", "/">>)), Skip(Str(<<"/", "a", "$", "/">>)),
            Skip(Re(<<"a", "$">>)), Filter(Re(<<"^", "s", " ", ">", " ", "g">>)),
            Options(Str(<<"g", " ", ">">>), Str(<<"b">>), FALSE, NoTimeout, FALSE, FALSE)},
           FALSE)

\* calls of test() without a name or without a function, in both forms, next
\* to valid ones; runs that terminate the process or not
Invalid ==
    Script(GroupNames, {},
           {Test(<<"a">>, Ok, FALSE, FALSE), StringForm(<<"b">>, Throw(ErrorObj)),
            StringForm(<<>>, Ok), StringForm(<<"a">>, NoFn),
            Test(<<>>, Ok, FALSE, TRUE), Test(<<"a">>, NoFn, FALSE, TRUE)},
           FALSE,
           {Plain, Exit},
           FALSE)

\* setup hooks that pass or throw, with teardown hooks behind them
SetupFails ==
    Script({},
           {<<"beforeAll", Ok>>, <<"beforeAll", Throw(ErrorObj)>>,
            <<"beforeEach", Throw(ErrorObj)>>, <<"afterEach", Ok>>, <<"afterAll", Ok>>},
           {Test(<<"a">>, Ok, FALSE, FALSE), Test(<<"b">>, Ok, FALSE, FALSE)},
           TRUE,
           {Plain},
           FALSE)

\* focused and other tests in and around a group with afterAll hooks
FocusedScopes ==
    Script(GroupNames, {<<"afterAll", Ok>>},
           {Test(<<"a">>, Ok, FALSE, TRUE), Test(<<"b">>, Ok, FALSE, FALSE)},
           TRUE,
           {Plain},
           FALSE)

\* a scope one of whose focused tests is ignored
IgnoredFocus ==
    Script({}, {<<"afterAll", Ok>>},
           {Test(<<"a">>, Ok, FALSE, TRUE), Test(<<"b">>, Ok, FALSE, FALSE),
            Test(<<"c">>, Ok, TRUE, TRUE)},
           TRUE,
           {Plain},
           FALSE)

\* hooks of every kind that wait on timers
SlowHooks ==
    Script({}, HookKinds \X {Slow},
           {Test(<<"a">>, Ok, FALSE, FALSE), Test(<<"b">>, Ok, FALSE, FALSE)},
           TRUE,
           {Plain},
           FALSE)

\* tests declared before the hooks of their scopes, in and around a group
MainAPI ==
    HooksLast(Script(GroupNames, HookKinds \X {Ok},
                     {Test(<<"a">>, Ok, FALSE, FALSE)},
                     TRUE,
                     {Plain},
                     FALSE))

\* runs with an onMessage callback, with and without a logger, under the
\* suite timer and with the exit option
Messages ==
    Script({}, {},
           {Test(<<"a">>, Ok, FALSE, FALSE), Test(<<"b">>, Throw(ErrorObj), FALSE, FALSE),
            Test(<<"c">>, Slow, FALSE, FALSE), Test(<<"d">>, Ok, TRUE, FALSE),
            Test(<<"a">>, Ok, FALSE, TRUE)},
           TRUE,
           {OnMessage(Plain, Ok), OnMessage(Plain, Slow), Silent(OnMessage(Plain, Slow)),
            OnMessage(SuiteTimer, Slow),
            OnMessage(Options(NoPattern, NoPattern, FALSE, DefaultSuiteTimeout, FALSE, TRUE),
                      Slow)},
           FALSE)

\* teardown hooks that throw, in and around a group, after a body that
\* throws an error of its own
Teardown ==
    Script(GroupNames,
           {<<"afterEach", Throw(HookError)>>, <<"afterAll", Throw(HookError)>>,
            <<"afterEach", Ok>>, <<"afterAll", Ok>>},
           {Test(<<"a">>, Throw(ErrorObj), FALSE, FALSE)},
           TRUE,
           {Plain},
           FALSE)

\* runs of two suites with console.log disabled, one after the other or both
\* at a time
Logging ==
    TwoSuites(Script({}, {},
                     {Test(<<"a">>, Ok, FALSE, FALSE)},
                     TRUE,
                     {Plain, DisableLog(Plain)},
                     TRUE))

Scripts == {Selection, Reruns, HooksFail, HooksPass, HooksFalsy, Timeouts, FailingHooks,
            Focus, Patterns, Invalid, SetupFails, FocusedScopes, IgnoredFocus,
            SlowHooks, MainAPI, Messages, Teardown, Logging}

\* the state after `new Suite(...)`, before the script sc makes its calls
Start(sc) ==
    /\ frames = (1 :> newContext(SuiteName))
    /\ stack = <<1>>
    /\ registry = <<>>
    /\ nextId = FirstIds
    /\ cache = [deferred EXCEPT !.isEnd = TRUE]
    /\ endValue = NoValue
    /\ run = Idle
    /\ tasks = {}
    /\ events = <<>>
    /\ calls = <<>>
    /\ returned = <<>>
    /\ exited = FALSE
    /\ script = sc
    /\ thrown = FALSE
    /\ open = 0
    /\ logging = [console |-> "log", oldConsoleLog |-> "null"]
    /\ other = "idle"

Init == \E sc \in Scripts : Start(sc)

(***************************************************************************)
(* Scheduling: which chain of microtasks can take a step.                  *)
(***************************************************************************)
\* the wrapped function the runner is awaiting at line 54 of runner.ts: the
\* one it called for the current test, unless the timer has won the race
Awaited ==
    {t \in tasks : /\ run.pc = "await"
                   /\ t.inRun = Len(returned) + 1
                   /\ t.def.id = run.runner.testsToRun[run.idx].id
                   /\ ~t.lost}

\* wrapped functions left running after their timer won the race
Abandoned == {t \in tasks : t.lost}

\* a wrapped function that goes on while callbacks it awaits are pending
ReadyWhilePending(t) == t.pc # "settled"

\* a wrapped function that can take its next step
Ready(t) == t.pc # "settled" /\ t.wait = 0

\* no microtask is queued: every function waits for a timer and so does the
\* run loop, if there is one; timers may fire and the script may go on
Quiet == run.pc \in {"idle", "await", "onMessage"} /\ \A t \in tasks : t.wait > 0

\* the script that drives the suite is between calls of the API
ScriptTurn == ~exited /\ run.pc = "idle" /\ Quiet

\* the script still has a call of run() ahead of it
RunsLeft == Len(returned) < (IF script.rerun THEN MaxRuns ELSE 1)

\* the script is at a call that prepares its next run
Registering == ScriptTurn /\ RunsLeft

(***************************************************************************)
(* The heap: frames no object refers to any more are collected.            *)
(***************************************************************************)
Range(s) == {s[k] : k \in DOMAIN s}

HooksOf(defs) == UNION {Range(d.hooks) : d \in defs}

Live(st, reg, ts) ==
    Range(st) \cup HooksOf(Range(reg)) \cup HooksOf({t.def : t \in ts})

Collect(h, st, reg, ts) ==
    [a \in (DOMAIN h) \cap Live(st, reg, ts) |-> h[a]]

\* the number of hooks registered on the frames of the heap h
HookCount(h) ==
    LET n(a) == Len(h[a].beforeAll) + Len(h[a].beforeEach)
                + Len(h[a].afterEach) + Len(h[a].afterAll)
        RECURSIVE Sum(_)
        Sum(S) == IF S = {} THEN 0
                  ELSE LET a == CHOOSE x \in S : TRUE IN n(a) + Sum(S \ {a})
    IN  Sum(DOMAIN h)

(***************************************************************************)
(* Registration (testing.ts: group, beforeAll..afterAll, test).            *)
(***************************************************************************)
\* group(name, fn), up to the call of fn: a fresh frame is pushed
GroupEnter(name) ==
    /\ Registering
    /\ Cardinality(DOMAIN frames) <= MaxGroups
    /\ LET a == NewAddr(frames) IN
        /\ frames' = (a :> newContext(name)) @@ frames
        /\ stack' = Append(stack, a)
    /\ open' = open + 1
    /\ thrown' = FALSE
    /\ UNCHANGED <<registry, nextId, cache, endValue, run, tasks,
                   events, calls, returned, exited, script, logging, other>>

\* group(name, fn), after fn has returned: the frame is popped
GroupExit ==
    /\ Registering
    /\ open > 0
    /\ LET st == SubSeq(stack, 1, Len(stack) - 1) IN
        /\ stack' = st
        /\ frames' = Collect(frames, st, registry, tasks)
    /\ open' = open - 1
    /\ thrown' = FALSE
    /\ UNCHANGED <<registry, nextId, cache, endValue, run, tasks,
                   events, calls, returned, exited, script, logging, other>>

\* group(name, fn) when fn throws, here the TypeError of a call of test() that
\* the callback lets escape: line 240 is not reached, the frame stays on the
\* stack, and the caller of group() catches the error
GroupThrow ==
    /\ Registering
    /\ thrown
    /\ open > 0
    /\ open' = open - 1
    /\ UNCHANGED <<frames, stack, registry, nextId, cache, endValue, run, tasks,
                   events, calls, returned, exited, script, thrown, logging, other>>


\* the registered tests that have frame a among their scopes
TestsOf(a) == {k \in DOMAIN registry : a \in Range(registry[k].hooks)}

\* _Suite.beforeAll / beforeEach / afterEach / afterAll: push onto top()'s list
RegisterHook(kind, beh) ==
    /\ Registering
    /\ HookCount(frames) < MaxHooks
    /\ script.hooksLast => TestsOf(top) # {}
    /\ frames' = [frames EXCEPT ![top][kind] = Append(@, [beh |-> beh])]
    /\ thrown' = FALSE
    /\ UNCHANGED <<stack, registry, nextId, cache, endValue, run, tasks,
                   events, calls, returned, exited, script, open, logging, other>>

\* a test() whose record form is not checked for an empty name
TypeErrorInStringForm(t) ==
    IF t.form = "string"
    THEN t.fn = NoFn \/ Len(t.name) = 0
    ELSE t.fn = NoFn

\* _Suite.test, lines 320-336: whether the call throws a TypeError, for want
\* of a function or of a name, before anything is changed
TypeErrorThrown(t) ==
    IF t.form = "string"
    THEN t.fn = NoFn \/ Len(t.name) = 0
    ELSE t.fn = NoFn \/ Len(t.name) = 0

\* a test() that keeps copies of the frames of the stack, not the frames
RegisterTestByValue(t) ==
    /\ Registering
    /\ IF TypeErrorThrown(t)
       THEN /\ thrown' = TRUE
            /\ UNCHANGED <<frames, registry, nextId>>
       ELSE
        /\ Len(registry) < MaxTests
        /\ LET onStack == Range(stack)
               m == CHOOSE x \in DOMAIN frames : \A y \in DOMAIN frames : y <= x
               counted == [a \in DOMAIN frames |->
                            IF a \in onStack
                            THEN [frames[a] EXCEPT
                                    !.waiting = IF t.ignore THEN @ ELSE @ + 1,
                                    !.only = IF t.only THEN @ + 1 ELSE @]
                            ELSE frames[a]]
               copies == [a \in (m + 1)..(m + Len(stack)) |-> counted[stack[a - m]]]
               testDef == [id |-> nextId.test,
                           name |-> Join([k \in 1..Len(stack) |-> frames[stack[k]].name]
                                         \o <<t.name>>),
                           fn |-> t.fn, ignore |-> t.ignore, only |-> t.only,
                           hooks |-> [k \in 1..Len(stack) |-> m + k]]
           IN
           /\ frames' = copies @@ counted
           /\ registry' = Append(registry, testDef)
        /\ nextId' = [nextId EXCEPT !.test = @ + 1]
        /\ thrown' = FALSE
    /\ UNCHANGED <<stack, cache, endValue, run, tasks,
                   events, calls, returned, exited, script, open, logging, other>>

\* _Suite.test(t) with t = [form, name, fn, ignore, only]: a TypeError, or the
\* counters of the open scopes, the qualified name and the registry entry
RegisterTest(t) ==
    /\ Registering
    /\ IF TypeErrorThrown(t)
       THEN /\ thrown' = TRUE
            /\ UNCHANGED <<frames, registry, nextId>>
       ELSE
        /\ Len(registry) < MaxTests
        /\ script.unique =>
              \A k \in DOMAIN registry :
                 registry[k].name # Join([j \in 1..Len(stack) |-> frames[stack[j]].name]
                                         \o <<t.name>>)
        /\ LET onStack == Range(stack)
                testDef == [id |-> nextId.test,
                            name |-> Join([k \in 1..Len(stack) |-> frames[stack[k]].name]
                                          \o <<t.name>>),
                            fn |-> t.fn, ignore |-> t.ignore, only |-> t.only,
                            hooks |-> stack]
            IN
            /\ frames' = [a \in DOMAIN frames |->
                            IF a \in onStack
                            THEN [frames[a] EXCEPT
                                    !.waiting = IF t.ignore THEN @ ELSE @ + 1,
                                    !.only = IF t.only THEN @ + 1 ELSE @]
                            ELSE frames[a]]
            /\ registry' = Append(registry, testDef)
        /\ nextId' = [nextId EXCEPT !.test = @ + 1]
        /\ thrown' = FALSE
    /\ UNCHANGED <<stack, cache, endValue, run, tasks,
                   events, calls, returned, exited, script, open, logging, other>>

(***************************************************************************)
(* TestRunner (runner.ts).                                                 *)
(***************************************************************************)
Reverse(s) == [k \in 1..Len(s) |-> s[Len(s) + 1 - k]]

\* a runner that walks the selected tests from the last registered to the first
TestRunnerBackwards(tests, filter, skip, failFast) ==
    LET onlyTests == SelectSeq(tests, LAMBDA d : d.only)
        usedOnly == Len(onlyTests) > 0
        unfilteredTests == IF usedOnly THEN onlyTests ELSE tests
        testsToRun == SelectSeq(unfilteredTests,
                                LAMBDA d : createFilterFn(filter, skip, d))
    IN  [usedOnly |-> usedOnly,
         failFast |-> failFast,
         testsToRun |-> Reverse(testsToRun),
         stats |-> [filtered |-> Len(unfilteredTests) - Len(testsToRun),
                    ignored |-> 0, passed |-> 0, failed |-> 0]]

\* a runner that leaves the ignored tests out of the run, as filtered
TestRunnerFiltersIgnored(tests, filter, skip, failFast) ==
    LET onlyTests == SelectSeq(tests, LAMBDA d : d.only)
        usedOnly == Len(onlyTests) > 0
        unfilteredTests == IF usedOnly THEN onlyTests ELSE tests
        testsToRun == SelectSeq(unfilteredTests,
                                LAMBDA d : ~d.ignore /\ createFilterFn(filter, skip, d))
    IN  [usedOnly |-> usedOnly,
         failFast |-> failFast,
         testsToRun |-> testsToRun,
         stats |-> [filtered |-> Len(unfilteredTests) - Len(testsToRun),
                    ignored |-> 0, passed |-> 0, failed |-> 0]]

\* a runner that counts as filtered every registered test it does not run
TestRunnerCountsUnfocused(tests, filter, skip, failFast) ==
    LET onlyTests == SelectSeq(tests, LAMBDA d : d.only)
        usedOnly == Len(onlyTests) > 0
        unfilteredTests == IF usedOnly THEN onlyTests ELSE tests
        testsToRun == SelectSeq(unfilteredTests,
                                LAMBDA d : createFilterFn(filter, skip, d))
    IN  [usedOnly |-> usedOnly,
         failFast |-> failFast,
         testsToRun |-> testsToRun,
         stats |-> [filtered |-> Len(tests) - Len(testsToRun),
                    ignored |-> 0, passed |-> 0, failed |-> 0]]

\* new TestRunner(tests, filterFn, failFast): the focus and filter selection
TestRunner(tests, filter, skip, failFast) ==
    LET onlyTests == SelectSeq(tests, LAMBDA d : d.only)
        usedOnly == Len(onlyTests) > 0
        unfilteredTests == IF usedOnly THEN onlyTests ELSE tests
        testsToRun == SelectSeq(unfilteredTests,
                                LAMBDA d : createFilterFn(filter, skip, d))
    IN  [usedOnly |-> usedOnly,
         failFast |-> failFast,
         testsToRun |-> testsToRun,
         stats |-> [filtered |-> Len(unfilteredTests) - Len(testsToRun),
                    ignored |-> 0, passed |-> 0, failed |-> 0]]

NoEndMessage == [name |-> <<>>, status |-> Undefined, error |-> Undefined,
                 duration |-> 0]

\* utils.ts logger.disable: console.log is kept in oldConsoleLog and replaced
\* by an empty function
disable(l) == [console |-> "noop", oldConsoleLog |-> l.console]

\* utils.ts logger.enable: console.log becomes what oldConsoleLog holds, if
\* it holds anything
enable(l) ==
    IF l.oldConsoleLog = "null" THEN l ELSE [l EXCEPT !.console = l.oldConsoleLog]

\* the script calls run({ disableLog: true }) of its second suite, between
\* two calls of the first suite's API or right after its call of run(),
\* which has returned a promise at its first await
OtherRunStart ==
    /\ script.suites = 2 /\ other = "idle"
    /\ ScriptTurn \/ (~exited /\ run.pc = "start")
    /\ other' = "running"
    /\ logging' = disable(logging)
    /\ UNCHANGED <<frames, stack, registry, nextId, cache, endValue, run, tasks,
                   events, calls, returned, exited, script, thrown, open>>

\* the run of the second suite leaves its loop, some turns of the event loop
\* after it was called, and enables the logger
OtherRunFinish ==
    /\ ~exited /\ other = "running" /\ run.pc # "start"
    /\ other' = "returned"
    /\ logging' = enable(logging)
    /\ UNCHANGED <<frames, stack, registry, nextId, cache, endValue, run, tasks,
                   events, calls, returned, exited, script, thrown, open>>

\* _Suite.run, lines 371-384: the cached result is returned when the deferred
\* is no longer pending; otherwise the options are merged, the suite timer is
\* armed and a runner is built over the registry
RunStart(opts) ==
    /\ ScriptTurn
    /\ open = 0
    /\ RunsLeft
    /\ IF ~cache.pending
       THEN /\ returned' = Append(returned, [options |-> opts, result |-> endValue])
            /\ UNCHANGED <<run, events, calls, logging>>
       ELSE /\ run' = [pc |-> "start",
                       options |-> opts,
                       timer |-> opts.timeout # NoTimeout,
                       timedOut |-> FALSE,
                       runner |-> TestRunner(registry, opts.filter, opts.skip,
                                             opts.failFast),
                       idx |-> 1,
                       now |-> 0,
                       start |-> 0,
                       results |-> <<>>,
                       endMessage |-> NoEndMessage,
                       endMsg |-> NoEndMsg,
                       seen |-> <<>>,
                       reported |-> <<>>,
                       resume |-> "start"]
            /\ events' = <<>>
            /\ calls' = <<>>
            /\ logging' = IF opts.disableLog THEN disable(logging) ELSE logging
            /\ UNCHANGED returned
    /\ UNCHANGED <<frames, stack, registry, nextId, cache, endValue, tasks,
                   exited, script, thrown, open, other>>

\* +new Date() after one more timer has fired: a timer fires later than the
\* moment it was set at
Tick(r) == r.now + 1

\* a loop that is left after its first message
AfterMessageStops(next) == "end"

\* the body of run's for-await loop for one message: a set timedOut flag
\* breaks out of the loop (which ends the generator), otherwise the loop
\* goes on to `next`
AfterMessage(next) == IF run.timedOut THEN "finish" ELSE next

\* a loop that hands the message to the callback and goes on without waiting
\* for the promise the callback returned
onMessageNotAwaited(r, msg, next) ==
    IF r.timedOut
    THEN [r EXCEPT !.pc = next]
    ELSE [r EXCEPT !.pc = next,
                   !.seen = IF r.options.onMessage = NoFn THEN @ ELSE Append(@, msg),
                   !.reported = IF r.options.logger THEN Append(@, msg) ELSE @,
                   !.endMsg = IF msg.type = "end" THEN msg.end ELSE @]

\* _Suite.run, lines 399-401 and then the generator: the end event is kept
\* as endMsg, and the generator is resumed at `next`
Received(r, msg, next) ==
    [r EXCEPT !.pc = next,
              !.endMsg = IF msg.type = "end" THEN msg.end ELSE @]

\* _Suite.run, lines 396-398: the message goes to print when there is a logger
Report(r, msg) ==
    [r EXCEPT !.reported = IF r.options.logger THEN Append(@, msg) ELSE @]

\* _Suite.run, lines 392-401, for the message msg after which the generator
\* would go on at `next`: nothing is done with it when the timer has fired;
\* a callback is awaited, which takes a timer when the callback is slow
onMessage(r, msg, next) ==
    IF r.timedOut
    THEN [r EXCEPT !.pc = next]
    ELSE IF r.options.onMessage = NoFn
    THEN Received(Report(r, msg), msg, next)
    ELSE IF r.options.onMessage = Slow
    THEN [r EXCEPT !.pc = "onMessage", !.resume = next, !.seen = Append(@, msg)]
    ELSE Received(Report([r EXCEPT !.seen = Append(@, msg)], msg), msg, next)

\* the generator yields the start event
EmitStart ==
    /\ ~exited /\ run.pc = "start"
    /\ LET msg == [type |-> "start",
                   tests |-> [k \in 1..Len(run.runner.testsToRun) |->
                                run.runner.testsToRun[k].id]]
       IN /\ events' = Append(events, msg)
          /\ run' = onMessage(run, msg, AfterMessage("loop"))
    /\ UNCHANGED <<frames, stack, registry, nextId, cache, endValue, tasks,
                   calls, returned, exited, script, thrown, open, logging, other>>

\* a fresh invocation of the wrapped function of wrapHooks
NewTask(def) ==
    [def |-> def, inRun |-> Len(returned) + 1, lost |-> FALSE, pc |-> "setup",
     i |-> 1, error |-> Undefined, wait |-> 0,
     seen |-> [waiting |-> 0, completed |-> 0, only |-> 0, completedOnly |-> 0],
     result |-> NoValue]

\* runner.ts, lines 47-54, the generator resumed after its testStart: an
\* ignored test is counted at once and any other test's wrapped function is
\* called under the timeout race
AfterTestStart(r, test) ==
    IF test.ignore
    THEN /\ run' = [r EXCEPT
                      !.pc = "testEnd",
                      !.endMessage = [name |-> test.name, status |-> "ignored",
                                      error |-> Undefined, duration |-> 0],
                      !.runner.stats.ignored = @ + 1]
         /\ UNCHANGED tasks
    ELSE /\ run' = [r EXCEPT !.pc = "await", !.start = r.now]
         /\ tasks' = tasks \cup {NewTask(test)}

\* a generator that calls the wrapped function of an ignored test as well
EmitTestStartCallsIgnored ==
    /\ ~exited /\ run.pc = "loop" /\ run.idx <= Len(run.runner.testsToRun)
    /\ LET test == run.runner.testsToRun[run.idx] IN
        /\ events' = Append(events, [type |-> "testStart", test |-> test.id])
        /\ IF run.timedOut
           THEN /\ run' = [run EXCEPT !.pc = "finish"]
                /\ UNCHANGED tasks
           ELSE /\ run' = [run EXCEPT !.pc = "await", !.start = run.now]
                /\ tasks' = tasks \cup {NewTask(test)}
    /\ UNCHANGED <<frames, stack, registry, nextId, cache, endValue,
                   calls, returned, exited, script, thrown, open, logging, other>>

\* the generator yields testStart for the next test; when the loop goes on, an
\* ignored test is counted at once and any other test's wrapped function is
\* called under the timeout race
EmitTestStart ==
    /\ ~exited /\ run.pc = "loop" /\ run.idx <= Len(run.runner.testsToRun)
    /\ LET test == run.runner.testsToRun[run.idx]
           msg == [type |-> "testStart", test |-> test.id]
           r == onMessage(run, msg, "call")
       IN
        /\ events' = Append(events, msg)
        /\ IF run.timedOut
           THEN /\ run' = [run EXCEPT !.pc = "finish"]
                /\ UNCHANGED tasks
           ELSE IF r.pc = "onMessage"
           THEN /\ run' = r
                /\ UNCHANGED tasks
           ELSE AfterTestStart(r, test)
    /\ UNCHANGED <<frames, stack, registry, nextId, cache, endValue,
                   calls, returned, exited, script, thrown, open, logging, other>>

\* a runner that does not wait for the promise of the wrapped function
raceWonAtOnce(t) == TRUE

\* a race that the body of the test wins, before the teardown
raceWonByBody(t) == t.pc \in {"afterEach", "afterAll", "return", "settled"}

\* the promise of the wrapped function has settled, so `await` goes on
raceWon(t) == t.pc = "settled"

\* a timer that rejects with an ordinary error
plainRejection == ErrorObj

\* the value the timer of timeout() rejects the race with
timeoutRejection == TimeoutError

\* the awaited race is won by the wrapped function: passed when it resolved,
\* failed with the rejection value when it rejected; `end` is read from the
\* clock after the await only, so in the catch branch it is still `start`
TestSettled ==
    /\ ~exited
    /\ \E t \in Awaited :
        /\ raceWon(t)
        /\ LET ok == t.result.status = "resolved"
               err == IF t.result.status = "rejected" THEN t.result.value ELSE Undefined
               end == IF ok THEN run.now ELSE run.start
           IN run' = [run EXCEPT
                    !.pc = "testEnd",
                    !.endMessage = [name |-> t.def.name,
                                    status |-> IF ok THEN "passed" ELSE "failed",
                                    error |-> err,
                                    duration |-> end - run.start],
                    !.runner.stats.passed = IF ok THEN @ + 1 ELSE @,
                    !.runner.stats.failed = IF ok THEN @ ELSE @ + 1]
        /\ LET left == {u \in tasks : u.pc # "settled"} IN
           /\ tasks' = left
           /\ frames' = Collect(frames, stack, registry, left)
    /\ UNCHANGED <<stack, registry, nextId, cache, endValue,
                   events, calls, returned, exited, script, thrown, open, logging, other>>

\* utils.ts timeout(): the timer fires while the wrapped function is waiting;
\* the race rejects with a TimeoutError and the function is left running; the
\* catch branch of the runner leaves `end` at `start`
TestTimeout ==
    /\ ~exited /\ Quiet
    /\ \E t \in Awaited :
        /\ run' = [run EXCEPT
                    !.pc = "testEnd",
                    !.now = Tick(run),
                    !.endMessage = [name |-> t.def.name, status |-> "failed",
                                    error |-> timeoutRejection,
                                    duration |-> run.start - run.start],
                    !.runner.stats.failed = @ + 1]
        /\ tasks' = (tasks \ {t}) \cup {[t EXCEPT !.lost = TRUE]}
    /\ UNCHANGED <<frames, stack, registry, nextId, cache, endValue,
                   events, calls, returned, exited, script, thrown, open, logging, other>>

\* the generator pushes the outcome and yields testEnd; fail-fast leaves the
\* loop when the outcome carries an error
EmitTestEnd ==
    /\ ~exited /\ run.pc = "testEnd"
    /\ LET msg == [type |-> "testEnd", test |-> run.runner.testsToRun[run.idx].id,
                   outcome |-> run.endMessage]
       IN /\ events' = Append(events, msg)
          /\ run' = onMessage([run EXCEPT
                                 !.results = Append(@, run.endMessage),
                                 !.endMessage = NoEndMessage,
                                 !.idx = @ + 1],
                              msg,
                              AfterMessage(IF run.runner.failFast
                                              /\ NotNullish(run.endMessage.error)
                                           THEN "end" ELSE "loop"))
    /\ UNCHANGED <<frames, stack, registry, nextId, cache, endValue, tasks,
                   calls, returned, exited, script, thrown, open, logging, other>>

\* an end event that does not tell that the run was focused
EndOfUnfocused(r) ==
    [usedOnly |-> FALSE, results |-> r.results,
     filtered |-> r.runner.stats.filtered, ignored |-> r.runner.stats.ignored,
     passed |-> r.runner.stats.passed, failed |-> r.runner.stats.failed,
     timeout |-> NoTimeout]

\* an end event that leaves the ignored tests out of its counts
EndOfWithoutIgnored(r) ==
    [usedOnly |-> r.runner.usedOnly, results |-> r.results,
     filtered |-> r.runner.stats.filtered, ignored |-> 0,
     passed |-> r.runner.stats.passed, failed |-> r.runner.stats.failed,
     timeout |-> NoTimeout]

\* the end event of the generator
EndOf(r) ==
    [usedOnly |-> r.runner.usedOnly, results |-> r.results,
     filtered |-> r.runner.stats.filtered, ignored |-> r.runner.stats.ignored,
     passed |-> r.runner.stats.passed, failed |-> r.runner.stats.failed,
     timeout |-> NoTimeout]

\* after the loop the generator yields end; run keeps it as endMsg unless the
\* suite timer has fired
EmitEnd ==
    /\ ~exited
    /\ \/ run.pc = "end"
       \/ run.pc = "loop" /\ run.idx > Len(run.runner.testsToRun)
    /\ LET msg == [type |-> "end", end |-> EndOf(run)]
       IN /\ events' = Append(events, msg)
          /\ run' = onMessage(run, msg, "finish")
    /\ UNCHANGED <<frames, stack, registry, nextId, cache, endValue, tasks,
                   calls, returned, exited, script, thrown, open, logging, other>>

\* the timer of a slow onMessage callback fires: the promise the run loop
\* awaits at line 394 settles, the message is reported and the generator is
\* resumed
OnMessageSettled ==
    /\ ~exited /\ run.pc = "onMessage" /\ Quiet
    /\ LET msg == run.seen[Len(run.seen)]
           r == Received(Report([run EXCEPT !.now = Tick(run)], msg), msg, run.resume)
       IN IF msg.type = "testStart"
          THEN AfterTestStart(r, run.runner.testsToRun[run.idx])
          ELSE /\ run' = r
               /\ UNCHANGED tasks
    /\ UNCHANGED <<frames, stack, registry, nextId, cache, endValue,
                   events, calls, returned, exited, script, thrown, open, logging, other>>

\* the suite timer set in run fires while the run waits on a timer
SuiteTimeout ==
    /\ ~exited /\ run.pc \in {"await", "onMessage"} /\ Quiet
    /\ run.timer /\ ~run.timedOut
    /\ run' = [run EXCEPT !.timedOut = TRUE, !.now = Tick(run)]
    /\ UNCHANGED <<frames, stack, registry, nextId, cache, endValue, tasks,
                   events, calls, returned, exited, script, thrown, open, logging, other>>

\* Deferred.resolve: settles the promise once; later calls change nothing
Resolve(d, v) ==
    IF d.value = NoValue
    THEN [d EXCEPT !.value = [status |-> "resolved", value |-> v],
                   !.pending = pendingOnceSettled]
    ELSE d

\* a reset that renews the deferred and the stack but keeps the registry
ResetKeepsRegistry ==
    /\ cache' = deferred
    /\ registry' = registry
    /\ LET a == NewAddr(frames)
       IN /\ frames' = (a :> newContext(SuiteName)) @@ frames
          /\ stack' = <<a>>
    /\ nextId' = nextId

\* a reset whose new deferred becomes the promise that `end` gives
ResetRenewsEnd ==
    /\ cache' = [deferred EXCEPT !.isEnd = TRUE]
    /\ registry' = <<>>
    /\ LET kept == Collect(frames, <<>>, <<>>, tasks)
           a == NewAddr(kept)
       IN /\ frames' = (a :> newContext(SuiteName)) @@ kept
          /\ stack' = <<a>>
    /\ nextId' = IF tasks = {} THEN FirstIds ELSE nextId

\* _Suite.reset: a new deferred, an empty registry and a fresh root frame
ResetSuite ==
    /\ cache' = deferred
    /\ registry' = <<>>
    /\ LET kept == Collect(frames, <<>>, <<>>, tasks)
           a == NewAddr(kept)
       IN /\ frames' = (a :> newContext(SuiteName)) @@ kept
          /\ stack' = <<a>>
    /\ nextId' = IF tasks = {} THEN FirstIds ELSE nextId

\* reset() called by the script, outside the callback of any group
Reset ==
    /\ Registering
    /\ open = 0
    /\ ResetSuite
    /\ UNCHANGED <<endValue, run, tasks, events, calls, returned, exited, script, thrown, open, logging, other>>

\* a run that leaves endMsg as the loop left it when the suite timer has fired
endMsgUnmarked(r) == r.endMsg

\* a run that, when the suite timer has fired, reports what the runner has
\* counted so far
endMsgWithCountsSoFar(r) ==
    IF r.timedOut
    THEN [EndOf(r) EXCEPT !.timeout = r.options.timeout]
    ELSE r.endMsg

\* _Suite.run, lines 403-408: endMsg once the loop is left; a suite timer
\* that fired puts its timeout on the end message, or on an empty one
endMsgAfterLoop(r) ==
    IF r.timedOut
    THEN [(IF r.endMsg = NoEndMsg THEN emptyEndMsg ELSE r.endMsg)
          EXCEPT !.timeout = r.options.timeout]
    ELSE r.endMsg

\* _Suite.run, line 412: final = endMsg ?? emptyEndMsg
finalOf(r) ==
    IF endMsgAfterLoop(r) = NoEndMsg THEN emptyEndMsg ELSE endMsgAfterLoop(r)

\* a run that terminates the process for failed tests only
exitOnFailureOnly(r) ==
    /\ endMsgAfterLoop(r) # NoEndMsg
    /\ endMsgAfterLoop(r).failed > 0
    /\ r.options.exit

\* _Suite.run, lines 414-418: whether exit(1) is called
exitCalled(r) ==
    /\ endMsgAfterLoop(r) # NoEndMsg
    /\ (endMsgAfterLoop(r).failed > 0 \/ endMsgAfterLoop(r).usedOnly)
    /\ r.options.exit

\* _Suite.run, lines 403-421: the timeout field, the resolution of the cache,
\* process termination, the reset option and the returned value
Finish ==
    /\ ~exited /\ run.pc = "finish"
    /\ LET endMsg == endMsgAfterLoop(run)
           final == finalOf(run)
           resolved == Resolve(cache, final)
           terminate == exitCalled(run)
       IN
       /\ endValue' = IF cache.isEnd THEN resolved.value ELSE endValue
       /\ exited' = terminate
       /\ IF terminate
          THEN /\ cache' = resolved
               /\ UNCHANGED <<frames, stack, registry, nextId, returned>>
          ELSE /\ returned' = Append(returned,
                                      [options |-> run.options,
                                       result |-> [status |-> "resolved",
                                                   value |-> final]])
               /\ IF run.options.reset
                  THEN ResetSuite
                  ELSE /\ cache' = resolved
                       /\ UNCHANGED <<frames, stack, registry, nextId>>
    /\ run' = Idle
    /\ events' = <<>>
    /\ calls' = <<>>
    /\ logging' = IF run.options.disableLog THEN enable(logging) ELSE logging
    /\ UNCHANGED <<tasks, script, thrown, open, other>>

(***************************************************************************)
(* The wrapped function of wrapHooks (testing.ts lines 35-77).             *)
(***************************************************************************)
\* callAll: fns.map((fn) => fn()) calls the callbacks in order; a callback
\* that throws ends the map, so the later ones are not called
FirstThrow(fns) ==
    IF \E k \in DOMAIN fns : fns[k].beh.k = "throw"
    THEN CHOOSE k \in DOMAIN fns :
            /\ fns[k].beh.k = "throw"
            /\ \A j \in 1..(k - 1) : fns[j].beh.k # "throw"
    ELSE 0

\* a callAll that calls the first callback of the list only
CalledFirst(fns) == SubSeq(fns, 1, IF Len(fns) > 0 THEN 1 ELSE 0)

\* the callbacks that callAll calls
Called(fns) == IF FirstThrow(fns) = 0 THEN fns ELSE SubSeq(fns, 1, FirstThrow(fns))

\* the callbacks of one callAll whose promises settle on a timer
Pending(fns) == Cardinality({k \in DOMAIN fns : fns[k].beh.k = "slow"})

CallLog(t, what, frame, fns) ==
    [k \in 1..Len(Called(fns)) |->
        [task |-> t.def.id, inRun |-> t.inRun, what |-> what, frame |-> frame,
         hook |-> k]]

Rejected(t, v) ==
    [t EXCEPT !.pc = "settled", !.wait = 0, !.result = [status |-> "rejected", value |-> v]]

\* an await of callAll that goes on when a callback threw
AfterCallAllGoesOn(t, fns, pc, i) ==
    [t EXCEPT !.pc = pc, !.i = i, !.wait = Pending(fns)]

\* await callAll(fns): the function rejects when a callback threw, and
\* otherwise goes on at `pc` once every promise has settled
AfterCallAll(t, fns, pc, i) ==
    IF FirstThrow(fns) # 0
    THEN Rejected(t, fns[FirstThrow(fns)].beh.v)
    ELSE [t EXCEPT !.pc = pc, !.i = i, !.wait = Pending(fns)]

\* the state change of one step of a wrapped function t into t2, the clock
\* of the runner apart
Step(t, t2, fr, cs) ==
    /\ calls' = calls \o cs
    /\ LET left == (tasks \ {t}) \cup
                   (IF t2.pc = "settled" /\ t.lost THEN {} ELSE {t2})
       IN /\ tasks' = left
          /\ frames' = Collect(fr, stack, registry, left)
    /\ UNCHANGED <<stack, registry, nextId, cache, endValue, events,
                   returned, exited, script, thrown, open, logging, other>>

\* a step of a wrapped function that takes no time
Commit(t, t2, fr, cs) == Step(t, t2, fr, cs) /\ UNCHANGED run

CanStep(t, pc) == ~exited /\ Ready(t) /\ t.pc = pc

\* a wrapped function that visits its frames in the opposite direction
FrameOpposite(t) == t.def.hooks[Len(t.def.hooks) + 1 - t.i]

\* the frame the loops of the wrapped function are at
Frame(t) == t.def.hooks[t.i]

\* lines 37-40: a frame none of whose tests has completed gets its beforeAll
BeforeAll(t) ==
    /\ CanStep(t, "setup")
    /\ LET fns == frames[Frame(t)].beforeAll IN
       IF frames[Frame(t)].completed = 0
       THEN Commit(t, AfterCallAll(t, fns, "beforeEach", t.i), frames,
                   CallLog(t, "beforeAll", Frame(t), fns))
       ELSE Commit(t, [t EXCEPT !.pc = "beforeEach"], frames, <<>>)

\* line 42, and the step to the next inner frame or to the body
BeforeEach(t) ==
    /\ CanStep(t, "beforeEach")
    /\ LET fns == frames[Frame(t)].beforeEach
           last == t.i = Len(t.def.hooks)
       IN Commit(t,
                 AfterCallAll(t, fns, IF last THEN "body" ELSE "setup",
                              IF last THEN t.i ELSE t.i + 1),
                 frames, CallLog(t, "beforeEach", Frame(t), fns))

\* lines 45-52: the body is called and awaited; a thrown value is kept
Body(t) ==
    /\ CanStep(t, "body")
    /\ Commit(t,
              [t EXCEPT !.pc = "completed",
                        !.error = IF t.def.fn.k = "throw" THEN t.def.fn.v ELSE Undefined,
                        !.wait = IF t.def.fn.k = "slow" THEN 1 ELSE 0],
              frames,
              <<[task |-> t.def.id, inRun |-> t.inRun, what |-> "body",
                 frame |-> Frame(t), hook |-> 0]>>)

\* lines 53-59: every frame of the snapshot counts the test as completed
Completed(t) ==
    /\ CanStep(t, "completed")
    /\ Commit(t, [t EXCEPT !.pc = "afterEach", !.i = Len(t.def.hooks)],
              [a \in DOMAIN frames |->
                 IF a \in Range(t.def.hooks)
                 THEN [frames[a] EXCEPT
                         !.completed = @ + 1,
                         !.completedOnly = IF t.def.only THEN @ + 1 ELSE @]
                 ELSE frames[a]],
              <<>>)

\* lines 62-70: the frame's counters are read, then its afterEach is awaited
AfterEach(t) ==
    /\ CanStep(t, "afterEach")
    /\ LET f == frames[Frame(t)]
           fns == f.afterEach
           seen == [waiting |-> f.waiting, completed |-> f.completed,
                    only |-> f.only, completedOnly |-> f.completedOnly]
       IN Commit(t, AfterCallAll([t EXCEPT !.seen = seen], fns, "afterAll", t.i),
                 frames, CallLog(t, "afterEach", Frame(t), fns))

\* the condition of line 72 on the counters read at line 62
afterAllDue(seen) ==
    \/ seen.waiting = seen.completed
    \/ (seen.only > 0 /\ seen.only = seen.completedOnly)

\* lines 72-75, and the step to the next outer frame
AfterAll(t) ==
    /\ CanStep(t, "afterAll")
    /\ LET fns == frames[Frame(t)].afterAll
           pc == IF t.i = 1 THEN "return" ELSE "afterEach"
           i == IF t.i = 1 THEN 1 ELSE t.i - 1
       IN IF afterAllDue(t.seen)
          THEN Commit(t, AfterCallAll(t, fns, pc, i), frames,
                      CallLog(t, "afterAll", Frame(t), fns))
          ELSE Commit(t, [t EXCEPT !.pc = pc, !.i = i], frames, <<>>)

\* whether the kept error is thrown at line 76
rethrows(error) == Truthy(error)

\* line 76: the kept error is thrown again, or the function returns
Return(t) ==
    /\ CanStep(t, "return")
    /\ Commit(t,
              IF rethrows(t.error) THEN Rejected(t, t.error)
              ELSE [t EXCEPT !.pc = "settled", !.result = [status |-> "resolved",
                                                          value |-> Undefined]],
              frames,
              <<[task |-> t.def.id, inRun |-> t.inRun, what |-> "return",
                 frame |-> 0, hook |-> 0]>>)

\* a timer a callback of t was waiting for fires
DelayDone(t) ==
    /\ ~exited /\ Quiet
    /\ t.wait > 0
    /\ Step(t, [t EXCEPT !.wait = @ - 1], frames, <<>>)
    /\ run' = IF run.pc = "idle" THEN run ELSE [run EXCEPT !.now = Tick(run)]

(***************************************************************************)
(* The specification.                                                      *)
(***************************************************************************)
Next ==
    \/ \E n \in script.groups : GroupEnter(n)
    \/ GroupExit
    \/ GroupThrow
    \/ \E h \in script.hooks : RegisterHook(h[1], h[2])
    \/ \E t \in script.tests : RegisterTest(t)
    \/ Reset
    \/ \E o \in script.options : RunStart(o)
    \/ OtherRunStart
    \/ OtherRunFinish
    \/ EmitStart
    \/ EmitTestStart
    \/ TestSettled
    \/ TestTimeout
    \/ EmitTestEnd
    \/ EmitEnd
    \/ OnMessageSettled
    \/ SuiteTimeout
    \/ Finish
    \/ \E t \in tasks : BeforeAll(t)
    \/ \E t \in tasks : BeforeEach(t)
    \/ \E t \in tasks : Body(t)
    \/ \E t \in tasks : Completed(t)
    \/ \E t \in tasks : AfterEach(t)
    \/ \E t \in tasks : AfterAll(t)
    \/ \E t \in tasks : Return(t)
    \/ \E t \in tasks : DelayDone(t)

Spec == Init /\ [][Next]_vars

(***************************************************************************)
(* Properties.                                                             *)
(***************************************************************************)
CurrentRun == Len(returned) + 1

\* the tests the runner of the current run walks through
Selected == run.runner.testsToRun

\* the invocations, in run r, of callback h of the `what` list of frame f
CallsOf(r, what, f, h) ==
    {i \in DOMAIN calls : /\ calls[i].inRun = r /\ calls[i].what = what
                          /\ calls[i].frame = f /\ calls[i].hook = h}

\* the wrapped function of test id, invoked in run r, has got to `what`
Logged(id, r, what) ==
    \E i \in DOMAIN calls :
        calls[i].task = id /\ calls[i].inRun = r /\ calls[i].what = what

\* the wrapped function of test id has run to its last line in the current run
RanToCompletion(id) == Logged(id, CurrentRun, "return")

\* positions of the current run's event stream holding a testStart
TestStarts == {i \in DOMAIN events : events[i].type = "testStart"}

\* C1: in any run the tests are started in the relative order in which they
\* were registered (a test's id is its rank of registration); focusing and
\* filtering remove tests from the run but never reorder them.
C1_StartedInRegistrationOrder ==
    \A i \in TestStarts, j \in TestStarts :
        i < j => events[i].test < events[j].test

\* a run in which two tests were started around one that the selection removed
C1_Witness ==
    \E i \in TestStarts, j \in TestStarts :
        /\ i < j
        /\ events[j].test > events[i].test + 1
        /\ \/ PatternGiven(run.options.filter)
           \/ PatternGiven(run.options.skip)
           \/ run.runner.usedOnly

\* C2: with fail-fast enabled, once a test's outcome is failed no later test
\* is started.
C2_NoStartAfterFailure ==
    (run.pc # "idle" /\ run.runner.failFast) =>
        \A i \in DOMAIN events, j \in DOMAIN events :
            (/\ i < j
             /\ events[i].type = "testEnd"
             /\ events[i].outcome.status = "failed")
            => events[j].type # "testStart"

\* C3: once the result of the suite is resolved, and until the suite is
\* reset, a call of run executes nothing: no run is in progress.
C3_ResolvedSuiteRunsNothing ==
    cache.value # NoValue => run.pc = "idle"

\* the tests a run takes from registry reg: the focused ones if there are any
Eligible(reg) ==
    IF \E k \in DOMAIN reg : reg[k].only
    THEN SelectSeq(reg, LAMBDA d : d.only)
    ELSE reg

\* the eligible tests of reg that pass the filter and skip of the options o
Chosen(reg, o) ==
    SelectSeq(Eligible(reg), LAMBDA d : createFilterFn(o.filter, o.skip, d))

\* C4: every call of run that returns, on a suite that was reset or not, has
\* evaluated the registry it found against its own filter and skip options:
\* unless the suite timer cut the run short, the result counts as filtered the
\* eligible tests these options exclude and lists outcomes for the tests they
\* select, in order (all of them when fail-fast is off).
C4_EachRunUsesItsOwnOptions ==
    [][Len(returned') > Len(returned) =>
         LET r == returned'[Len(returned')]
             v == r.result.value
             chosen == Chosen(registry, r.options)
         IN  /\ r.result.status = "resolved"
             /\ v.timeout = NoTimeout =>
                  /\ v.filtered = Len(Eligible(registry)) - Len(chosen)
                  /\ Len(v.results) <= Len(chosen)
                  /\ \A k \in DOMAIN v.results : v.results[k].name = chosen[k].name
                  /\ ~r.options.failFast => Len(v.results) = Len(chosen)
    ]_vars

\* two runs of one registry, without a reset, whose options differ and whose
\* results differ
C4_Witness ==
    /\ Len(returned) = 2
    /\ cache.value # NoValue
    /\ ~returned[1].options.reset
    /\ returned[1].options # returned[2].options
    /\ returned[1].result.value.filtered = 0
    /\ Len(returned[1].result.value.results) = Len(registry)
    /\ returned[2].result.value.filtered > 0
    /\ returned[2].result.value.filtered + Len(returned[2].result.value.results)
          = Len(registry)

\* C5: in a first run that is not cut short, with no focused test, in which
\* every selected test ran to its last line, every scope with a test in the
\* run has had each beforeAll and each afterAll callback called exactly once.
C5_OncePerScope ==
    (/\ run.pc = "finish"
     /\ CurrentRun = 1
     /\ ~run.timedOut
     /\ ~run.runner.usedOnly
     /\ \A k \in DOMAIN Selected :
            ~Selected[k].ignore => RanToCompletion(Selected[k].id))
    => \A f \in DOMAIN frames :
          (\E k \in DOMAIN Selected :
              ~Selected[k].ignore /\ f \in Range(Selected[k].hooks))
          => /\ \A h \in DOMAIN frames[f].beforeAll :
                   Cardinality(CallsOf(CurrentRun, "beforeAll", f, h)) = 1
             /\ \A h \in DOMAIN frames[f].afterAll :
                   Cardinality(CallsOf(CurrentRun, "afterAll", f, h)) = 1

\* the non-ignored tests registered in the scope of frame f or in a scope
\* nested in it
GroupTests(f) ==
    {k \in DOMAIN registry : ~registry[k].ignore /\ f \in Range(registry[k].hooks)}

\* C6: when the N non-ignored tests of a group (direct or nested) have all run
\* to their last line in a run, each beforeEach callback and each afterEach
\* callback of the group has been called exactly N times in that run, whether
\* the tests pass or fail.
C6_EachHooksRunOncePerTest ==
    run.pc # "idle" =>
        \A f \in DOMAIN frames :
            (\A k \in GroupTests(f) : RanToCompletion(registry[k].id))
            => /\ \A h \in DOMAIN frames[f].beforeEach :
                     Cardinality(CallsOf(CurrentRun, "beforeEach", f, h))
                        = Cardinality(GroupTests(f))
               /\ \A h \in DOMAIN frames[f].afterEach :
                     Cardinality(CallsOf(CurrentRun, "afterEach", f, h))
                        = Cardinality(GroupTests(f))

\* a group with a beforeEach and an afterEach whose two tests, one of them
\* failing, have run to their last line
C6_Witness ==
    /\ run.pc = "finish"
    /\ \E f \in DOMAIN frames :
          /\ Cardinality(GroupTests(f)) >= 2
          /\ \A k \in GroupTests(f) : RanToCompletion(registry[k].id)
          /\ \E k \in GroupTests(f) : registry[k].fn.k = "throw"
          /\ Len(frames[f].beforeEach) > 0
          /\ Len(frames[f].afterEach) > 0

\* the wrapped functions of the current run that are still executing
Executing == {t \in tasks : t.inRun = CurrentRun /\ t.pc # "settled"}

\* C7 as stated: within one run at most one wrapped function is executing at
\* any time.
C7_OneExecuting == Cardinality(Executing) <= 1

\* C7, amended: within one run at most one wrapped function that has not been
\* abandoned by its per-test timeout exists at any time, and it is the one
\* the runner is awaiting; any other function still executing has lost the
\* race against its timer.
C7_OneActiveUnlessAbandoned ==
    /\ Cardinality({t \in tasks : ~t.lost}) <= 1
    /\ \A t \in tasks : ~t.lost => t \in Awaited

\* the runner awaits one test while the function of an earlier test, which
\* timed out, is still executing
C7_Witness ==
    /\ \E t \in Awaited : t.pc # "settled"
    /\ \E t \in Abandoned : t.inRun = CurrentRun /\ t.pc # "settled"

\* C8: a test whose body threw a value and whose wrapped function ran to its
\* last line has the outcome failed, with the thrown value as its error.
C8_ThrownValueFails ==
    run.pc = "testEnd" =>
        LET d == Selected[run.idx] IN
        (~d.ignore /\ d.fn.k = "throw" /\ RanToCompletion(d.id))
        => /\ run.endMessage.status = "failed"
           /\ run.endMessage.error = d.fn.v

\* C9: when the body of a test threw and its wrapped function has run the
\* teardown to the end, every afterEach callback of every frame of its
\* snapshot has been called and the function has rejected with the value the
\* body threw.
C9_TeardownThenRethrow ==
    \A t \in tasks :
        (/\ t.pc = "settled"
         /\ t.def.fn.k = "throw"
         /\ Logged(t.def.id, t.inRun, "return"))
        => /\ \A f \in Range(t.def.hooks) : \A h \in DOMAIN frames[f].afterEach :
                 \E i \in CallsOf(t.inRun, "afterEach", f, h) :
                     calls[i].task = t.def.id
           /\ t.result = [status |-> "rejected", value |-> t.def.fn.v]

\* the position in the current run of the test of the wrapped function t
PositionOf(t) == CHOOSE k \in DOMAIN Selected : Selected[k].id = t.def.id

\* the outcome the runner holds for the k-th test of the current run
OutcomeAt(k) == IF k <= Len(run.results) THEN run.results[k] ELSE run.endMessage

\* the tests of the current run that lost the race against their timer
TimedOutTests == {k \in DOMAIN run.results : run.results[k].error = TimeoutError}

\* a wrapped function abandoned by its timer has the outcome failed with a
\* TimeoutError, and the runner is not waiting for it
AbandonedIsFailedAndLeft ==
    run.pc # "idle" =>
        \A t \in Abandoned : t.inRun = CurrentRun =>
            /\ OutcomeAt(PositionOf(t)).status = "failed"
            /\ OutcomeAt(PositionOf(t)).error = TimeoutError
            /\ run.pc = "await" => run.idx > PositionOf(t)

\* C10 as stated: a test whose timer fires first is failed with a
\* TimeoutError and the runner does not wait for its function, and the result
\* of a run with such a test has no suite-level timeout.
C10_PerTestTimeoutOnly ==
    /\ AbandonedIsFailedAndLeft
    /\ (run.pc = "finish" /\ TimedOutTests # {})
         => finalOf(run).timeout = NoTimeout

\* C10, amended: a test whose timer fires first is failed with a TimeoutError
\* and the runner does not wait for its function, and the result of a run
\* with such a test has no suite-level timeout unless the suite timer has
\* fired in that run as well.
C10_PerTestTimeout ==
    /\ AbandonedIsFailedAndLeft
    /\ (run.pc = "finish" /\ TimedOutTests # {} /\ ~run.timedOut)
         => finalOf(run).timeout = NoTimeout

\* a run ends, without a suite timeout, after a test timed out and a later
\* test was run, while the abandoned function is still executing
C10_Witness ==
    /\ run.pc = "finish"
    /\ ~run.timedOut
    /\ \E k \in TimedOutTests : k < Len(run.results)
    /\ \E t \in Abandoned : t.inRun = CurrentRun /\ t.pc # "settled"

\* the number of outcomes of a result list that have the status st
CountOf(results, st) ==
    Cardinality({k \in DOMAIN results : results[k].status = st})

\* C11: when the suite timer has fired in a run, the result the run returns
\* has the configured suite timeout as its timeout field and does not count
\* the timeout as the failure of a test: failed is 0 and no outcome is listed
\* when the timer fired before the end event was received, and otherwise the
\* result is the end event's, with as many failures as failed outcomes.
C11_SuiteTimeoutResult ==
    [][(run.pc = "finish" /\ run.timedOut /\ Len(returned') > Len(returned)) =>
         LET v == returned'[Len(returned')].result.value
         IN  /\ v.timeout = run.options.timeout
             /\ v.timeout # NoTimeout
             /\ v.failed = CountOf(v.results, "failed")
             /\ run.endMsg = NoEndMsg => v.failed = 0 /\ v.results = <<>>
             /\ run.endMsg # NoEndMsg => v = [run.endMsg EXCEPT !.timeout = v.timeout]
    ]_vars

\* a run armed with the suite timer has returned a result with that timeout
C11_Witness ==
    /\ Len(returned) = 1
    /\ returned[1].options.timeout = DefaultSuiteTimeout
    /\ returned[1].result.value.timeout = DefaultSuiteTimeout

\* C12: once the suite timer has fired, the run is not waiting for the test in
\* progress to produce its outcome.
C12_TimerEndsTheWait ==
    run.pc = "await" => ~run.timedOut

\* every event of the stream is in its place: start is the first event and
\* nothing else is, a testStart follows start or a testEnd, a testEnd follows
\* the testStart of the same test, and end comes last, after start or a testEnd
StreamWellFormed ==
    \A i \in DOMAIN events :
        /\ (events[i].type = "start") <=> (i = 1)
        /\ events[i].type = "testStart" =>
              /\ i > 1
              /\ events[i - 1].type \in {"start", "testEnd"}
        /\ events[i].type = "testEnd" =>
              /\ i > 1
              /\ events[i - 1].type = "testStart"
              /\ events[i - 1].test = events[i].test
        /\ events[i].type = "end" =>
              /\ i = Len(events)
              /\ i > 1
              /\ events[i - 1].type \in {"start", "testEnd"}

\* the number of testEnd events in the stream
TestEnds == Cardinality({i \in DOMAIN events : events[i].type = "testEnd"})

\* C13: the event stream of a run is one start, then for each test of the run,
\* in order and ignored tests included, its testStart directly followed by its
\* testEnd, then one end; a stream that run has drained ends with end and
\* holds a pair for every selected test unless fail-fast cut it after an
\* outcome that carries an error.
C13_StreamShape ==
    run.pc # "idle" =>
        /\ StreamWellFormed
        /\ \A i \in TestStarts : events[i].test = Selected[i \div 2].id
        /\ (run.pc = "finish" /\ ~run.timedOut) =>
              /\ events[Len(events)].type = "end"
              /\ TestEnds <= Len(Selected)
              /\ TestEnds < Len(Selected) =>
                    /\ run.runner.failFast
                    /\ NotNullish(events[Len(events) - 1].outcome.error)

\* a drained stream with the pairs of several tests, one of them ignored
C13_Witness ==
    /\ run.pc = "finish"
    /\ Len(Selected) >= 2
    /\ \E k \in DOMAIN Selected : Selected[k].ignore
    /\ Len(events) = 2 * Len(Selected) + 2
    /\ events[Len(events)].type = "end"

\* C14: in the end event of a run, passed + failed + ignored is the number of
\* outcomes in results, which is the number of testEnd events emitted; each
\* count is the number of outcomes with that status.
C14_CountsAddUp ==
    \A i \in DOMAIN events : events[i].type = "end" =>
        LET e == events[i].end
        IN  /\ e.passed + e.failed + e.ignored = Len(e.results)
            /\ Len(e.results) = TestEnds
            /\ e.passed = CountOf(e.results, "passed")
            /\ e.failed = CountOf(e.results, "failed")
            /\ e.ignored = CountOf(e.results, "ignored")

\* an end event that counts a passed, a failed and an ignored test
C14_Witness ==
    \E i \in DOMAIN events :
        /\ events[i].type = "end"
        /\ events[i].end.passed >= 1
        /\ events[i].end.failed >= 1
        /\ events[i].end.ignored >= 1

\* the positions in the registry of the tests marked only
OnlyTests == {k \in DOMAIN registry : registry[k].only}

\* the registered test with the identity id
DefOf(id) == registry[CHOOSE k \in DOMAIN registry : registry[k].id = id]

\* C15: when a registered test is marked only, every test selected and every
\* test started in the run is marked only, and filtered counts the only-marked
\* tests left out by filter and skip and none of the other tests.
C15_FocusExcludesOthers ==
    (run.pc # "idle" /\ OnlyTests # {}) =>
        /\ \A k \in DOMAIN Selected : Selected[k].only
        /\ \A i \in TestStarts : DefOf(events[i].test).only
        /\ run.runner.stats.filtered = Cardinality(OnlyTests) - Len(Selected)

\* a focused run has started a test while a registered test that is not
\* marked only stays out of the run and out of filtered
C15_Witness ==
    /\ run.pc # "idle"
    /\ OnlyTests # {}
    /\ OnlyTests # DOMAIN registry
    /\ TestStarts # {}
    /\ run.runner.stats.filtered = 0

\* C16 as stated: whenever a registered test is marked only, the result a run
\* returns reports usedOnly = true.
C16_FocusedResultSaysSo ==
    [][(Len(returned') > Len(returned) /\ OnlyTests # {}) =>
         returned'[Len(returned')].result.value.usedOnly
    ]_vars

\* C16, amended: whenever a registered test is marked only, the result a run
\* returns reports usedOnly = true, whether a focused test failed or not,
\* unless the suite timer fired in the run before the end event was
\* received: then the result is the empty aggregate with the timeout field,
\* whose usedOnly is false.
C16_FocusedResultUnlessTimedOut ==
    [][(Len(returned') > Len(returned) /\ OnlyTests # {}) =>
         LET v == returned'[Len(returned')].result.value
         IN  v.usedOnly <=> ~(run.pc = "finish" /\ run.timedOut /\ run.endMsg = NoEndMsg)
    ]_vars

\* a focused run has returned a result that counts a failed test
C16_Witness ==
    /\ Len(returned) = 1
    /\ OnlyTests # {}
    /\ returned[1].result.value.usedOnly
    /\ returned[1].result.value.failed >= 1
    /\ returned[1].result.value.passed >= 1

\* a name matches a pattern: a RegExp by its test, a string of the form
\* /pattern/ as the regular expression between the slashes, any other
\* string by containment
Matches(p, name) ==
    IF p.type = "RegExp" THEN RegexTest(p.text, name)
    ELSE IF StartsWith(p.text, <<"/">>) /\ EndsWith(p.text, <<"/">>)
         THEN RegexTest(SubSeq(p.text, 2, Len(p.text) - 1), name)
    ELSE Includes(name, p.text)

\* the eligible test d is one of the tests of the current run
IsSelected(d) == \E j \in DOMAIN Selected : Selected[j].id = d.id

\* C17: a test of the eligible set is in the run if and only if no filter is
\* given or its qualified name matches the filter, and no skip is given or its
\* qualified name does not match the skip.
C17_RunIffMatches ==
    run.pc # "idle" =>
        \A k \in DOMAIN Eligible(registry) :
            LET d == Eligible(registry)[k]
            IN  IsSelected(d) <=>
                  /\ PatternGiven(run.options.filter) => Matches(run.options.filter, d.name)
                  /\ PatternGiven(run.options.skip) => ~Matches(run.options.skip, d.name)

\* the skip option is a string of the form /pattern/
SkipIsPatternString ==
    /\ run.options.skip.type = "string"
    /\ Len(run.options.skip.text) >= 2
    /\ StartsWith(run.options.skip.text, <<"/">>)
    /\ EndsWith(run.options.skip.text, <<"/">>)

\* C18: a skip given as a string /pattern/ excludes from the run exactly the
\* eligible tests whose name matches the regular expression between the
\* slashes.
C18_SkipPatternString ==
    (run.pc # "idle" /\ SkipIsPatternString /\ ~PatternGiven(run.options.filter)) =>
        \A k \in DOMAIN Eligible(registry) :
            LET d == Eligible(registry)[k]
                pattern == SubSeq(run.options.skip.text, 2, Len(run.options.skip.text) - 1)
            IN  ~IsSelected(d) <=> RegexTest(pattern, d.name)

\* C19: the filtered count of a run is the number of eligible tests minus the
\* number of tests selected to run, in the runner and in its end event; an
\* eligible ignored test that passes filter and skip is selected, and the end
\* event counts as ignored the ignored tests among those the run got to.
C19_FilteredCount ==
    run.pc # "idle" =>
        /\ run.runner.stats.filtered = Len(Eligible(registry)) - Len(Selected)
        /\ \A k \in DOMAIN Eligible(registry) :
              LET d == Eligible(registry)[k]
              IN  (d.ignore /\ createFilterFn(run.options.filter, run.options.skip, d))
                  => IsSelected(d)
        /\ \A i \in DOMAIN events : events[i].type = "end" =>
              /\ events[i].end.filtered = Len(Eligible(registry)) - Len(Selected)
              /\ events[i].end.ignored =
                    Cardinality({k \in DOMAIN events[i].end.results : Selected[k].ignore})

\* the end event of a run that left a test out and got to an ignored test
C19_Witness ==
    \E i \in DOMAIN events :
        /\ events[i].type = "end"
        /\ events[i].end.filtered >= 1
        /\ events[i].end.ignored >= 1
        /\ PatternGiven(run.options.filter) \/ PatternGiven(run.options.skip)

\* C20: the outcome of a test that has just failed carries the time elapsed
\* from the test's start to the failure.
C20_FailedDurationIsElapsed ==
    [][(run.pc = "await" /\ run'.pc = "testEnd" /\ run'.endMessage.status = "failed")
       => run'.endMessage.duration = run'.now - run'.start]_vars

\* C21: a call of test() with an empty name or without a function, in the
\* string form or the record form, throws a TypeError and leaves the suite
\* unchanged: the registry, every frame's counters and lists, the stack and
\* the cache are as before, and no test without a function or with an empty
\* name is ever appended to the registry (its qualified name would end with
\* the separator).
C21_InvalidTestThrows ==
    [][/\ (~thrown /\ thrown') =>
            UNCHANGED <<registry, frames, stack, nextId, cache>>
       /\ Len(registry') > Len(registry) =>
            LET d == registry'[Len(registry')]
            IN  /\ d.fn # NoFn
                /\ ~EndsWith(d.name, Sep)
                /\ \E t \in script.tests :
                      /\ t.fn = d.fn /\ Len(t.name) > 0
                      /\ EndsWith(d.name, t.name)]_vars

\* an invalid call has thrown inside a group, after a test was registered
C21_Witness ==
    /\ thrown
    /\ Len(stack) = 2
    /\ Len(registry) = 1
    /\ frames[stack[1]].waiting = 1
    /\ frames[stack[2]].waiting = 0

\* the outcomes the runner has pushed that have status st
Pushed(st) == Cardinality({k \in DOMAIN run.results : run.results[k].status = st})

\* C22: a run terminates the process exactly when its exit option is set and
\* its final result has failed > 0 or usedOnly = true; the final result is
\* the empty aggregate when the suite timer cut the run short and the
\* runner's end event otherwise. Nothing else terminates the process.
C22_ExitExactlyOnFailureOrFocus ==
    [][/\ exited' # exited => (run.pc = "finish" /\ exited')
       /\ (run.pc = "finish" /\ run'.pc = "idle") =>
            LET failed == IF run.endMsg = NoEndMsg THEN 0 ELSE Pushed("failed")
                usedOnly == run.endMsg # NoEndMsg /\ OnlyTests # {}
            IN  exited' <=> (run.options.exit /\ (failed > 0 \/ usedOnly))]_vars

\* the process was terminated by a focused run none of whose tests failed
C22_Witness ==
    /\ exited
    /\ cache.value.status = "resolved"
    /\ cache.value.value.usedOnly
    /\ cache.value.value.failed = 0

\* a step that is a reset of the suite: the reset option at the end of a run
\* that does not terminate the process, or a call of reset() by the script
ResetStep ==
    \/ run.pc = "finish" /\ run'.pc = "idle" /\ run.options.reset /\ ~exited'
    \/ /\ run.pc = "idle" /\ run'.pc = "idle"
       /\ \/ cache' # cache
          \/ Len(registry') < Len(registry)
          \/ (Len(stack') = Len(stack) /\ stack' # stack)

\* the suite was reset after its last run and has not finished a run since
FreshCycle == Len(returned) >= 1 /\ cache.value = NoValue

\* C23: a reset leaves an empty registry, a pending deferred and a stack of
\* one fresh root frame with all counters 0 and empty hook lists, which no
\* earlier test refers to; the run that follows finds on every frame of its
\* tests no completed test and exactly the counts of the tests registered
\* since the reset.
C23_ResetStartsFromScratch ==
    [][/\ ResetStep =>
            /\ registry' = <<>>
            /\ cache' = deferred
            /\ Len(stack') = 1
            /\ frames'[stack'[1]] = newContext(SuiteName)
            /\ stack'[1] \notin HooksOf({t.def : t \in tasks'})
       /\ (FreshCycle /\ run.pc = "idle" /\ run'.pc = "start") =>
            \A f \in HooksOf(Range(registry)) :
                /\ frames[f].completed = 0
                /\ frames[f].completedOnly = 0
                /\ frames[f].waiting = Cardinality(GroupTests(f))
                /\ frames[f].only =
                      Cardinality({k \in OnlyTests : f \in Range(registry[k].hooks)})]_vars

\* a run after a reset has got to the outcome of a test registered since
C23_Witness ==
    /\ FreshCycle
    /\ returned[1].options.reset
    /\ Len(returned[1].result.value.results) >= 1
    /\ run.pc = "testEnd"
    /\ Len(registry) >= 1

\* a setup hook called for test id in the current run has thrown
SetupThrew(id) ==
    \E i \in DOMAIN calls :
        /\ calls[i].task = id /\ calls[i].inRun = CurrentRun
        /\ calls[i].what \in {"beforeAll", "beforeEach"}
        /\ frames[calls[i].frame][calls[i].what][calls[i].hook].beh.k = "throw"

\* C24: a test one of whose setup hooks (beforeAll, beforeEach) threw is
\* reported failed, and by then every afterEach callback of its frames has
\* been called for it.
C24_TeardownAfterFailedSetup ==
    run.pc # "idle" =>
        \A i \in DOMAIN events :
            (events[i].type = "testEnd" /\ SetupThrew(events[i].test)) =>
                /\ events[i].outcome.status = "failed"
                /\ \A f \in Range(DefOf(events[i].test).hooks) :
                      \A h \in DOMAIN frames[f].afterEach :
                          \E c \in CallsOf(CurrentRun, "afterEach", f, h) :
                              calls[c].task = events[i].test

\* the tests of the current run that are not ignored and have frame f among
\* their scopes, by position in the run
RunTests(f) ==
    {k \in DOMAIN Selected : ~Selected[k].ignore /\ f \in Range(Selected[k].hooks)}

\* C25: in a run every beforeAll callback of a scope frame is called at most
\* once, and by the first test of that scope that the run executes.
C25_BeforeAllOncePerFrame ==
    run.pc # "idle" =>
        \A f \in DOMAIN frames :
            \A h \in DOMAIN frames[f].beforeAll :
                /\ Cardinality(CallsOf(CurrentRun, "beforeAll", f, h)) <= 1
                /\ \A c \in CallsOf(CurrentRun, "beforeAll", f, h) :
                      \E k \in RunTests(f) :
                          /\ Selected[k].id = calls[c].task
                          /\ \A j \in RunTests(f) : k <= j

\* C26: in every reachable state every scope frame has completed <= waiting
\* and completedOnly <= only <= waiting.
C26_CountersOrdered ==
    \A f \in DOMAIN frames :
        /\ frames[f].completed <= frames[f].waiting
        /\ frames[f].completedOnly <= frames[f].only
        /\ frames[f].only <= frames[f].waiting

\* C27: when a focused run that selects every focused test has got through
\* its stream and the focused tests of a scope that are not ignored have all
\* run to their last line, every afterAll callback of the scope has been
\* called exactly once in the run.
C27_FocusedAfterAllOnce ==
    (/\ run.pc = "finish" /\ run.runner.usedOnly /\ ~run.timedOut
     /\ Len(Selected) = Len(Eligible(registry))
     /\ Len(run.results) = Len(Selected))
    => \A f \in DOMAIN frames :
          (/\ RunTests(f) # {}
           /\ \A k \in RunTests(f) : RanToCompletion(Selected[k].id))
          => \A h \in DOMAIN frames[f].afterAll :
                Cardinality(CallsOf(CurrentRun, "afterAll", f, h)) = 1

\* the depth, among the scope frames of its test, of the frame of a logged call
Depth(c) ==
    LET h == DefOf(c.task).hooks IN CHOOSE p \in DOMAIN h : h[p] = c.frame

\* the number of scope frames of the test of a logged call
Scopes(c) == Len(DefOf(c.task).hooks)

\* the place of a logged call in the order the claims state for one test:
\* beforeAll and beforeEach frame by frame from the outermost, the body,
\* afterEach and afterAll frame by frame from the innermost, the return
Place(c) ==
    IF c.what = "beforeAll" THEN 2 * Depth(c) - 1
    ELSE IF c.what = "beforeEach" THEN 2 * Depth(c)
    ELSE IF c.what = "body" THEN 2 * Scopes(c) + 1
    ELSE IF c.what = "afterEach" THEN 2 * Scopes(c) + 2 + 2 * (Scopes(c) - Depth(c))
    ELSE IF c.what = "afterAll" THEN 2 * Scopes(c) + 3 + 2 * (Scopes(c) - Depth(c))
    ELSE 4 * Scopes(c) + 2

\* calls i and j of the log were made for one test in the current run
SameTest(log, i, j, r) ==
    /\ log[i].task = log[j].task
    /\ log[i].inRun = r /\ log[j].inRun = r

\* the wrapped function that made call c awaits no pending callback
NothingPending(c) ==
    \A t \in tasks : (t.def.id = c.task /\ t.inRun = c.inRun) => t.wait = 0

SetupKinds == {"beforeAll", "beforeEach", "body"}

\* C28: the setup calls made for a test follow the order outermost frame to
\* innermost, beforeAll before beforeEach at each frame, the body last, the
\* callbacks of one list in their order; a setup callback or the body is
\* called only when every callback called before it for the test has
\* settled; and when the body is called in the run every beforeEach callback
\* of every frame of the test has been called for it.
C28_SetupOrder ==
    [][/\ \A i \in DOMAIN calls', j \in DOMAIN calls' :
            (/\ i < j /\ SameTest(calls', i, j, Len(returned') + 1)
             /\ calls'[j].what \in SetupKinds)
            => /\ Place(calls'[i]) <= Place(calls'[j])
               /\ Place(calls'[i]) = Place(calls'[j])
                    => (calls'[i].frame = calls'[j].frame
                        /\ calls'[i].hook < calls'[j].hook)
       /\ \A j \in (Len(calls) + 1)..Len(calls') :
            calls'[j].what \in SetupKinds =>
                /\ NothingPending(calls'[j])
                /\ (calls'[j].what = "body" /\ calls'[j].inRun = Len(returned') + 1) =>
                      \A f \in Range(DefOf(calls'[j].task).hooks) :
                          \A h \in DOMAIN frames[f].beforeEach :
                              \E i \in 1..(j - 1) :
                                  /\ SameTest(calls', i, j, calls'[j].inRun)
                                  /\ calls'[i].what = "beforeEach"
                                  /\ calls'[i].frame = f /\ calls'[i].hook = h]_vars

\* the body of a test in a group was called after a beforeEach of an outer
\* scope and a beforeAll of an inner one
C28_Witness ==
    \E i \in DOMAIN calls, k \in DOMAIN calls, b \in DOMAIN calls :
        /\ i < k /\ k < b
        /\ SameTest(calls, i, k, CurrentRun) /\ SameTest(calls, k, b, CurrentRun)
        /\ calls[i].what = "beforeEach"
        /\ calls[k].what = "beforeAll"
        /\ calls[k].frame # calls[i].frame
        /\ calls[b].what = "body"

TeardownKinds == {"afterEach", "afterAll", "return"}

\* C29: the teardown calls made for a test come after its body and follow the
\* order innermost frame to outermost, afterEach before afterAll at each
\* frame, the callbacks of one list in their order; a teardown callback is
\* called, and the function returns, only when every callback called before
\* for the test, the body included, has settled; and when the function gets
\* to its last line in the run every afterEach callback of every frame of
\* the test has been called for it.
C29_TeardownOrder ==
    [][/\ \A i \in DOMAIN calls', j \in DOMAIN calls' :
            (/\ i < j /\ SameTest(calls', i, j, Len(returned') + 1)
             /\ calls'[j].what \in TeardownKinds)
            => /\ Place(calls'[i]) <= Place(calls'[j])
               /\ Place(calls'[i]) = Place(calls'[j])
                    => (calls'[i].frame = calls'[j].frame
                        /\ calls'[i].hook < calls'[j].hook)
       /\ \A j \in (Len(calls) + 1)..Len(calls') :
            calls'[j].what \in TeardownKinds =>
                /\ NothingPending(calls'[j])
                /\ calls'[j].inRun = Len(returned') + 1 =>
                      \E b \in 1..(j - 1) :
                          /\ SameTest(calls', b, j, calls'[j].inRun)
                          /\ calls'[b].what = "body"
                /\ (calls'[j].what = "return" /\ calls'[j].inRun = Len(returned') + 1) =>
                      \A f \in Range(DefOf(calls'[j].task).hooks) :
                          \A h \in DOMAIN frames[f].afterEach :
                              \E i \in 1..(j - 1) :
                                  /\ SameTest(calls', i, j, calls'[j].inRun)
                                  /\ calls'[i].what = "afterEach"
                                  /\ calls'[i].frame = f /\ calls'[i].hook = h]_vars

\* a test in a group has returned after the afterEach of the group and then
\* a teardown hook of an enclosing scope
C29_Witness ==
    \E i \in DOMAIN calls, k \in DOMAIN calls, b \in DOMAIN calls :
        /\ i < k /\ k < b
        /\ SameTest(calls, i, k, CurrentRun) /\ SameTest(calls, k, b, CurrentRun)
        /\ calls[i].what = "afterEach"
        /\ calls[k].what \in {"afterEach", "afterAll"}
        /\ calls[k].frame # calls[i].frame
        /\ Depth(calls[k]) < Depth(calls[i])
        /\ calls[b].what = "return"

\* the four hook lists of a frame
Lists(c) == [k \in HookKinds |-> c[k]]

\* the counters of a frame
Counters(c) == <<c.waiting, c.completed, c.only, c.completedOnly>>

\* C30: a step that makes a hook list longer appends one callback to one
\* list of the innermost open scope and changes nothing else, on that frame
\* or on any other; a test is registered with the scopes open at that moment
\* as its frames; and a hook is only ever called for a test that has the
\* hook's frame among its frames, so never for a test of a sibling group or
\* of an enclosing scope.
C30_HookGoesToInnermostScope ==
    [][/\ (\E a \in DOMAIN frames \cap DOMAIN frames' : \E k \in HookKinds :
                Len(frames'[a][k]) > Len(frames[a][k]))
           => /\ DOMAIN frames' = DOMAIN frames
              /\ UNCHANGED <<stack, registry>>
              /\ \A a \in DOMAIN frames :
                    /\ Counters(frames'[a]) = Counters(frames[a])
                    /\ a # stack[Len(stack)] => Lists(frames'[a]) = Lists(frames[a])
              /\ \E k \in HookKinds :
                    /\ Len(frames'[stack[Len(stack)]][k]) = Len(frames[stack[Len(stack)]][k]) + 1
                    /\ SubSeq(frames'[stack[Len(stack)]][k], 1, Len(frames[stack[Len(stack)]][k]))
                          = frames[stack[Len(stack)]][k]
                    /\ \A k2 \in HookKinds \ {k} :
                          frames'[stack[Len(stack)]][k2] = frames[stack[Len(stack)]][k2]
       /\ Len(registry') > Len(registry) => registry'[Len(registry')].hooks = stack
       /\ \A j \in (Len(calls) + 1)..Len(calls') :
            calls'[j].frame # 0 =>
                \E t \in tasks :
                    /\ t.def.id = calls'[j].task /\ t.inRun = calls'[j].inRun
                    /\ calls'[j].frame \in Range(t.def.hooks)]_vars

\* a test of one group has run to its last line while a sibling group has a
\* hook, which was not called for it
C30_Witness ==
    \E k \in DOMAIN registry : \E f \in DOMAIN frames :
        /\ run.pc # "idle"
        /\ RanToCompletion(registry[k].id)
        /\ Len(registry[k].hooks) = 2
        /\ f \notin Range(registry[k].hooks)
        /\ \E s \in DOMAIN registry :
              Len(registry[s].hooks) = 2 /\ registry[s].hooks[2] = f
        /\ \E kind \in HookKinds : Len(frames[f][kind]) > 0
        /\ \A i \in DOMAIN calls : calls[i].task = registry[k].id => calls[i].frame # f

\* the counters of a frame that tell of tests waiting and completed
Progress(c) == <<c.waiting, c.completed, c.completedOnly>>

\* C31: an ignored test that is selected gets a testStart followed at once by
\* a testEnd with status ignored and duration 0, in every stream that the
\* suite timer has not cut between the two; no callback (body or hook)
\* is ever called for it and no wrapped function exists for it; and neither
\* its registration nor the steps of the run that are about it change the
\* waiting, completed or completedOnly counter of any frame.
C31_IgnoredTestIsOnlyReported ==
    [][/\ run'.pc # "idle" =>
            /\ \A i \in DOMAIN events' :
                  (events'[i].type = "testStart" /\ DefOf(events'[i].test).ignore) =>
                      /\ i = Len(events') =>
                            \/ run'.pc \in {"testEnd", "onMessage"}
                            \/ run'.timedOut /\ run'.pc = "finish"
                      /\ i < Len(events') =>
                            /\ events'[i + 1].type = "testEnd"
                            /\ events'[i + 1].test = events'[i].test
                            /\ events'[i + 1].outcome.status = "ignored"
                            /\ events'[i + 1].outcome.duration = 0
            /\ \A c \in DOMAIN calls' :
                  calls'[c].inRun = Len(returned') + 1 => ~DefOf(calls'[c].task).ignore
            /\ \A t \in tasks' : t.inRun = Len(returned') + 1 => ~t.def.ignore
       /\ (Len(registry') > Len(registry) /\ registry'[Len(registry')].ignore) =>
            \A a \in DOMAIN frames : Progress(frames'[a]) = Progress(frames[a])
       /\ (/\ run.pc \in {"loop", "testEnd"} /\ run.idx <= Len(Selected)
           /\ Selected[run.idx].ignore /\ run' # run) =>
            \A a \in DOMAIN frames \cap DOMAIN frames' :
                Progress(frames'[a]) = Progress(frames[a])]_vars

\* an ignored test was reported in a run in which a hook of its scope was
\* called for another test
C31_Witness ==
    /\ run.pc # "idle"
    /\ \E i \in DOMAIN events :
          /\ events[i].type = "testEnd"
          /\ events[i].outcome.status = "ignored"
          /\ \E c \in DOMAIN calls :
                /\ calls[c].inRun = CurrentRun
                /\ calls[c].what \in HookKinds
                /\ calls[c].frame \in Range(DefOf(events[i].test).hooks)

\* C32: a registered test holds the frames of its scopes themselves, so the
\* root frame of every registered test is the root frame of the stack, on
\* which hooks are still being registered; and when a test has run to its
\* last line in a run, every beforeEach and every afterEach callback that its
\* frames hold has been called for it, whether the callback was registered
\* before the test or after it.
C32_HooksApplyWhateverTheOrder ==
    /\ \A k \in DOMAIN registry : registry[k].hooks[1] = stack[1]
    /\ run.pc # "idle" =>
          \A k \in DOMAIN Selected :
              (~Selected[k].ignore /\ RanToCompletion(Selected[k].id)) =>
                  \A f \in Range(Selected[k].hooks) :
                      \A kind \in {"beforeEach", "afterEach"} :
                          \A h \in DOMAIN frames[f][kind] :
                              \E c \in CallsOf(CurrentRun, kind, f, h) :
                                  calls[c].task = Selected[k].id

\* in a script that declares its hooks after the tests, a test of a group has
\* run to its last line and a hook of the root and a hook of the group were
\* called for it
C32_Witness ==
    /\ script.hooksLast
    /\ run.pc # "idle"
    /\ \E k \in DOMAIN Selected :
          /\ RanToCompletion(Selected[k].id)
          /\ Len(Selected[k].hooks) = 2
          /\ \A p \in 1..2 :
                \E c \in DOMAIN calls :
                    /\ calls[c].task = Selected[k].id
                    /\ calls[c].what \in {"beforeEach", "afterEach"}
                    /\ calls[c].frame = Selected[k].hooks[p]

\* what the callback and the reporter have been given when the run r has
\* yielded the events ev: the callback has every event, in the order of the
\* stream, and the reporter has the events whose callback promise has settled
Forwarded(r, ev) ==
    (r.pc # "idle" /\ ~r.timedOut) =>
        /\ r.options.onMessage # NoFn => r.seen = ev
        /\ r.options.onMessage = NoFn => r.seen = <<>>
        /\ r.options.logger =>
              r.reported = IF r.pc = "onMessage" THEN SubSeq(ev, 1, Len(ev) - 1) ELSE ev
        /\ ~r.options.logger => r.reported = <<>>

\* the wrapped functions that have been called
Invoked(ts) == {<<t.inRun, t.def.id>> : t \in ts}

\* C33: in a run the suite timer has not cut short, every event of the runner
\* is passed to onMessage in the order of the stream and then to the reporter;
\* a callback whose promise takes time keeps the run waiting, and while the
\* promise is pending the runner yields no further event and calls no test.
C33_EventsForwardedInOrder ==
    [][ /\ Forwarded(run', events')
        /\ (events' # events /\ run'.pc # "idle" /\ ~run'.timedOut
               /\ run'.options.onMessage = Slow) =>
              /\ run'.pc = "onMessage"
              /\ Invoked(tasks') \subseteq Invoked(tasks)
        /\ run.pc = "onMessage" =>
              /\ events' = events
              /\ run'.pc = "onMessage" => Invoked(tasks') \subseteq Invoked(tasks)
      ]_vars

\* a run with a slow callback and a logger has called its second test: the
\* callback has had four events and the reporter has been given them
C33_Witness ==
    /\ run.pc = "await" /\ ~run.timedOut
    /\ run.options.onMessage = Slow /\ run.options.logger
    /\ run.idx = 2
    /\ Len(run.seen) = 4
    /\ run.reported = run.seen

\* C34: whenever the script is between two calls, the scope stack holds the
\* root frame and one frame for each group callback that is still executing,
\* whether the callbacks of the groups that finished returned or threw.
C34_StackDepthRestored == Len(stack) = open + 1

\* C35 as stated: a run in which the suite timer has fired returns the empty
\* result with the timeout, and does not terminate the process.
C35_TimedOutResultIsEmpty ==
    [][(run.pc = "finish" /\ run.timedOut /\ run'.pc = "idle") =>
         /\ finalOf(run) = [emptyEndMsg EXCEPT !.timeout = run.options.timeout]
         /\ ~exited'
    ]_vars

\* C35, amended: a run in which the suite timer has fired before the loop
\* received the end event returns the empty result with the timeout, whatever
\* outcomes the runner had emitted, and does not terminate the process; when
\* the timer fires after the end event was received, while its callback is
\* pending, the result is the end event's with the timeout added, and the
\* process is terminated as after any end event.
C35_TimedOutBeforeEndIsEmpty ==
    [][(run.pc = "finish" /\ run.timedOut /\ run'.pc = "idle") =>
         /\ run.endMsg = NoEndMsg =>
               /\ finalOf(run) = [emptyEndMsg EXCEPT !.timeout = run.options.timeout]
               /\ ~exited'
         /\ run.endMsg # NoEndMsg =>
               /\ finalOf(run) = [run.endMsg EXCEPT !.timeout = run.options.timeout]
               /\ exited' = (run.options.exit
                               /\ (run.endMsg.failed > 0 \/ run.endMsg.usedOnly))
    ]_vars

\* a run with the exit option is about to return after the suite timer fired
\* before the end event, and a failed outcome had been emitted
C35_Witness ==
    /\ run.pc = "finish" /\ run.timedOut /\ run.endMsg = NoEndMsg
    /\ run.options.exit
    /\ \E k \in DOMAIN run.results : run.results[k].status = "failed"

\* C36: the promise `end` settles at most once, in the step in which the
\* first run finishes, with the result of that run; from then on it keeps
\* that value, whatever is reset and run afterwards.
C36_EndSettlesOnceWithFirstResult ==
    [][ /\ endValue' # endValue =>
              /\ endValue = NoValue
              /\ run.pc = "finish" /\ Len(returned) = 0
              /\ endValue' = [status |-> "resolved", value |-> finalOf(run)]
        /\ (endValue' # NoValue /\ Len(returned') >= 1) =>
              endValue' = returned'[1].result
      ]_vars

\* two runs have returned, the suite was reset between them, and `end` has
\* the result of the first, which is not the result of the second
C36_Witness ==
    /\ Len(returned) = 2
    /\ returned[1].options.reset
    /\ endValue = returned[1].result
    /\ returned[2].result # endValue

\* the callback that the call c of the log was a call of
CallbackOf(c) == frames[c.frame][c.what][c.hook]

\* C37: once an afterEach or afterAll callback has thrown in the teardown of
\* a test, nothing more is called for that test, so the teardown of the
\* remaining outer frames is skipped, and the outcome of the test is failed
\* with the value the callback threw, whatever the body did.
C37_TeardownErrorReplacesBodyError ==
    run.pc # "idle" =>
        \A c \in DOMAIN calls :
            (/\ calls[c].inRun = CurrentRun
             /\ calls[c].what \in {"afterEach", "afterAll"}
             /\ CallbackOf(calls[c]).beh.k = "throw") =>
                /\ \A j \in DOMAIN calls :
                      (j > c /\ calls[j].inRun = CurrentRun) =>
                          calls[j].task # calls[c].task
                /\ \A i \in DOMAIN events :
                      (events[i].type = "testEnd" /\ events[i].test = calls[c].task) =>
                          /\ events[i].outcome.status = "failed"
                          /\ events[i].outcome.error = CallbackOf(calls[c]).beh.v

\* a test of a group whose body threw one error has the outcome failed with
\* the error of a teardown callback of the group, and the root frame holds a
\* teardown callback that was not called for the test
C37_Witness ==
    /\ run.pc # "idle"
    /\ \E i \in DOMAIN events :
          /\ events[i].type = "testEnd"
          /\ events[i].outcome.error = HookError
          /\ LET d == DefOf(events[i].test) IN
              /\ d.fn = Throw(ErrorObj)
              /\ Len(d.hooks) = 2
              /\ \E c \in DOMAIN calls :
                    /\ calls[c].task = d.id /\ calls[c].frame = d.hooks[2]
                    /\ calls[c].what \in {"afterEach", "afterAll"}
              /\ Len(frames[d.hooks[1]].afterEach) + Len(frames[d.hooks[1]].afterAll) > 0
              /\ \A c \in DOMAIN calls :
                    calls[c].task = d.id => calls[c].frame # d.hooks[1]

\* the wrapped functions of ts that their runner has given up on
Lost(ts) == {<<t.inRun, t.def.id>> : t \in {u \in ts : u.lost}}

\* C38: the timer of a test races the whole wrapped function. When the
\* runner leaves its await, either the timer has won, and the outcome is
\* failed with the timeout error wherever the function was, in its setup, its
\* body or its teardown; or the function has settled, setup and teardown
\* included, and the outcome is what the function settled with; an outcome
\* passed needs the function to have returned.
C38_TimeoutRacesWholeFunction ==
    [][(run.pc = "await" /\ run'.pc = "testEnd") =>
         IF Lost(tasks') # Lost(tasks)
         THEN /\ run'.endMessage.status = "failed"
              /\ run'.endMessage.error = TimeoutError
              /\ ~RanToCompletion(Selected[run.idx].id)
         ELSE /\ \E t \in Awaited :
                    /\ t.pc = "settled"
                    /\ run'.endMessage.status =
                          (IF t.result.status = "resolved" THEN "passed" ELSE "failed")
              /\ run'.endMessage.status = "passed" =>
                    RanToCompletion(Selected[run.idx].id)
    ]_vars

\* a test whose body returned at once has the outcome failed with the timeout
\* error: the timer fired while the function was in its teardown
C38_Witness ==
    /\ run.pc = "testEnd"
    /\ run.endMessage.status = "failed"
    /\ run.endMessage.error = TimeoutError
    /\ Selected[run.idx].fn = Ok
    /\ \E t \in tasks :
          /\ t.lost /\ t.inRun = CurrentRun /\ t.def.id = Selected[run.idx].id
          /\ t.pc \in {"afterEach", "afterAll", "return"}
          /\ Logged(t.def.id, CurrentRun, "body")

\* C39: whenever no run that was started with disableLog is in progress, in
\* this suite or in the other, console.log is the function it was at the
\* start.
C39_LoggingRestored ==
    (run.pc = "idle" /\ other # "running") => logging.console = "log"

====
